---- MODULE Spec2Model ----
(***************************************************************************)
(* Miraverse: the generate endpoint's audio assembly (route.ts, gemini.ts) *)
(* and the client state containers of the tutor page (page.tsx).           *)
(*                                                                         *)
(* JavaScript values are tagged records: every value carries a field t     *)
(* naming its type and holds its content in a field of its own name (n for *)
(* a number, s for a string, ...), so that values of different types can   *)
(* be compared.                                                            *)
(***************************************************************************)
EXTENDS Integers, Sequences, FiniteSets, TLC

VARIABLES
  \* ---- client: state of the Home component (page.tsx) ----
  messages,          \* ChatMessage[]
  isChatLoading,     \* boolean
  studioLoading,     \* StudioMode | null
  studioResults,     \* StudioResult[], newest first
  modal,             \* the modal* state cells, as one record
  inflight,          \* fetches to /api/generate that have not settled yet
  nextId,            \* the next value uuid() hands out
  input,             \* the text of the chat input
  sources,           \* Source[]
  selectedSources,   \* the ids of the selected sources
  activeTab,         \* the open tab of the sources panel, or null
  \* ---- server: locals of one POST /api/generate in mode audio ----
  audioPc,           \* position of the handler
  apiKey,            \* process.env.GOOGLE_API_KEY is set
  scriptData,        \* the parsed script
  dialogue,          \* scriptData.dialogue || []
  i,                 \* loop index of the chunk loop
  allPcmChunks,      \* Uint8Array[]
  totalCombinedPcmLength,
  finalWavFile,      \* the stitched file
  response,          \* the NextResponse.json body, once returned
  ttsChunks,         \* the arguments of the calls to generateMultiSpeakerSpeech
  ttsResults,        \* what each of those calls returned
  \* ---- server: locals of one POST /api/generate in mode video ----
  videoPc,           \* position of the handler
  videoTitle,        \* scriptData.title || <fixed title>
  videoScenes,       \* scriptData.scenes
  videoMedia,        \* per scene: how its image and audio requests settled
  videoResponse,     \* the NextResponse.json body, once returned
  \* ---- extractQuiz, or the payload parsers, applied to one text ----
  quizRaw,           \* the text
  quizParsed,        \* what is returned for it, once parsed
  \* ---- server: trimSources applied to one list of sources ----
  trimArg,           \* the sources, each by the lengths of its header and content
  trimResult,        \* the blocks of the string it returns, once called
  \* ---- client: state of the JobPrepView component (page.tsx) ----
  jobStep,           \* step: 'input' | 'dashboard' | 'plan' | 'test'
  isLoading,         \* boolean
  testQuestions,     \* QuizQuestion[]
  userAnswers,       \* number[], -1 for a question without an answer
  showTestResults,   \* boolean
  jobPending         \* the fetches of handleCreatePlan and handleStartTest not settled yet

clientVars == <<messages, isChatLoading, studioLoading, studioResults, modal,
                inflight, nextId, input>>
audioVars == <<audioPc, apiKey, scriptData, dialogue, i, allPcmChunks,
               totalCombinedPcmLength, finalWavFile, response, ttsChunks,
               ttsResults>>
quizVars == <<quizRaw, quizParsed>>
sourceVars == <<sources, selectedSources, activeTab>>
videoVars == <<videoPc, videoTitle, videoScenes, videoMedia, videoResponse>>
trimVars == <<trimArg, trimResult>>
jobVars == <<jobStep, isLoading, testQuestions, userAnswers, showTestResults,
             jobPending>>
vars == <<clientVars, sourceVars, audioVars, quizVars, videoVars, trimVars,
          jobVars>>

(***************************************************************************)
(* Bounds of the model.                                                    *)
(***************************************************************************)
MaxDialogue == 61   \* longest dialogue of a script: three chunks
MaxPcm == 2         \* most sample bytes one speech call returns
MaxRequests == 2    \* most fetches to /api/generate the page issues
MaxQuestions == 2   \* most entries of the questions array of a JSON text
MaxLines == 6       \* most lines of a markdown text
MaxScenes == 2      \* most scenes of a video script
MaxEntries == 2     \* most blocks, slides or cards of a payload document
MaxSources == 3     \* most sources of a list handed to trimSources
MaxJobRequests == 2 \* most fetches of JobPrepView pending together

(***************************************************************************)
(* JavaScript values.                                                      *)
(***************************************************************************)
Undefined == [t |-> "undefined"]
JNull == [t |-> "null"]
JNum(n) == [t |-> "num", n |-> n]
JStr(s) == [t |-> "str", s |-> s]
JBool(b) == [t |-> "bool", b |-> b]
JArr(s) == [t |-> "arr", a |-> s]
JObj(r) == [t |-> "obj", o |-> r]
NaN == [t |-> "nan"]
NoJson == [t |-> "nojson"]

\* o.k, for o a parsed JSON value that is not null
Get(o, k) == IF o.t = "obj" /\ k \in DOMAIN o.o THEN o.o[k] ELSE Undefined

\* a ?? b
Coalesce(a, b) == IF a.t \in {"undefined", "null"} THEN b ELSE a

RECURSIVE SumLen(_)
SumLen(seqs) ==
  IF seqs = <<>> THEN 0 ELSE Len(Head(seqs)) + SumLen(Tail(seqs))

RECURSIVE Flatten(_)
Flatten(seqs) ==
  IF seqs = <<>> THEN <<>> ELSE Head(seqs) \o Flatten(Tail(seqs))

\* a slice that takes the element at to as well
SliceInclusive(s, from, to) ==
  SubSeq(s, from + 1, IF to + 1 < Len(s) THEN to + 1 ELSE Len(s))

\* Array.prototype.slice(from, to), for 0 <= from <= to
Slice(s, from, to) ==
  SubSeq(s, from + 1, IF to < Len(s) THEN to ELSE Len(s))

(***************************************************************************)
(* Text returned by the model, as the parsers see it.  A text is a fixed   *)
(* string (lit), or a JSON document (json) that may sit inside a ```json   *)
(* fence (fence), have prose around it (prose) and carry trailing commas   *)
(* or raw newlines (noise), or markdown lines (lines, each a sequence of   *)
(* characters).  The prose of a text holds no brace and no bracket.        *)
(***************************************************************************)
Text(lit, fence, prose, noise, json, lines) ==
  [t |-> "text", lit |-> lit, fence |-> fence, prose |-> prose,
   noise |-> noise, json |-> json, lines |-> lines]

\* a fixed string; the empty one has no line
Lit(s) ==
  Text(s, FALSE, FALSE, FALSE, NoJson, IF s = "" THEN <<>> ELSE << <<"x">> >>)
JsonText(fence, prose, noise, json) ==
  Text("", fence, prose, noise, json, << <<"{">> >>)
MarkdownText(lines) == Text("", FALSE, FALSE, FALSE, NoJson, lines)

\* JSON.parse(raw.replace(/```json|```/gi, "").trim()): the fences go, prose
\* and trailing commas stay and make the parse throw (NoJson)
ParseStripped(raw) ==
  IF ~raw.prose /\ ~raw.noise THEN raw.json ELSE NoJson

(***************************************************************************)
(* JavaScript conversions used by the parsers.                             *)
(***************************************************************************)
\* the truthiness of a value
Truthy(v) ==
  CASE v.t \in {"undefined", "null", "nan", "nojson"} -> FALSE
    [] v.t = "bool" -> v.b
    [] v.t = "num" -> v.n # 0
    [] v.t = "str" -> v.s # ""
    [] v.t = "text" -> v # Lit("")
    [] OTHER -> TRUE

\* String(v)
StringOf(v) ==
  CASE v.t = "str" -> v
    [] v.t = "num" -> JStr(ToString(v.n))
    [] v.t = "bool" -> JStr(IF v.b THEN "true" ELSE "false")
    [] v.t = "arr" -> JStr("<array>")
    [] OTHER -> JStr("[object Object]")

\* the numeric strings of the model and their values
NumericStrings == <<"0", "1", "2", "3", "4", "5", "6", "7", "8", "9">>

\* Number(v)
NumberOf(v) ==
  CASE v.t = "num" -> v
    [] v.t = "null" -> JNum(0)
    [] v.t = "bool" -> JNum(IF v.b THEN 1 ELSE 0)
    [] v.t = "str" ->
         IF v.s = "" THEN JNum(0)
         ELSE IF \E d \in 1..Len(NumericStrings) : NumericStrings[d] = v.s
           THEN JNum((CHOOSE d \in 1..Len(NumericStrings) :
                        NumericStrings[d] = v.s) - 1)
         ELSE NaN
    [] v.t = "arr" -> IF v.a = <<>> THEN JNum(0) ELSE NaN
    [] OTHER -> NaN

(***************************************************************************)
(* page.tsx: extractQuiz.                                                  *)
(***************************************************************************)
QuizReadyMessage == Lit("Quiz ready. Click to take it.")

\* the characters of a line are tokens: ASCII characters stand for
\* themselves, CHECK and CHECKBOX for the two check marks, cyr_x / CYR_x for
\* the Cyrillic letters
Digits == {"0", "1", "2", "3", "4", "5", "6", "7", "8", "9"}
Whitespace == {" ", "TAB"}
\* [A-DА-Га-г] under the flag i
OptionLetters ==
  {"A", "B", "C", "D", "a", "b", "c", "d",
   "CYR_A", "CYR_BE", "CYR_VE", "CYR_GHE", "cyr_a", "cyr_be", "cyr_ve", "cyr_ghe"}
LowerOf(c) ==
  CASE c = "A" -> "a" [] c = "B" -> "b" [] c = "C" -> "c" [] c = "D" -> "d"
    [] c = "E" -> "e" [] c = "O" -> "o" [] c = "R" -> "r" [] c = "T" -> "t"
    [] c = "CYR_A" -> "cyr_a" [] c = "CYR_BE" -> "cyr_be"
    [] c = "CYR_VE" -> "cyr_ve" [] c = "CYR_GHE" -> "cyr_ghe"
    [] c = "CYR_IE" -> "cyr_ie" [] c = "CYR_ER" -> "cyr_er"
    [] c = "CYR_EN" -> "cyr_en" [] c = "CYR_PE" -> "cyr_pe"
    [] c = "CYR_I" -> "cyr_i" [] c = "CYR_EL" -> "cyr_el"
    [] OTHER -> c

JChars(cs) == [t |-> "chars", c |-> cs]

\* String.prototype.trim
RECURSIVE TrimLeft(_)
TrimLeft(cs) ==
  IF cs # <<>> /\ Head(cs) \in Whitespace THEN TrimLeft(Tail(cs)) ELSE cs

\* cs without the whitespace that ends its first n characters
RECURSIVE TrimRightTo(_, _)
TrimRightTo(cs, n) ==
  IF n > 0 /\ cs[n] \in Whitespace THEN TrimRightTo(cs, n - 1)
  ELSE SubSeq(cs, 1, n)

Trim(cs) ==
  CHOOSE r \in {TrimRightTo(left, Len(left)) : left \in {TrimLeft(cs)}} : TRUE

\* replace(/\*\*/g, ""), from position k on
RECURSIVE RemoveBoldFrom(_, _)
RemoveBoldFrom(cs, k) ==
  IF k > Len(cs) THEN <<>>
  ELSE IF k < Len(cs) /\ cs[k] = "*" /\ cs[k + 1] = "*"
    THEN RemoveBoldFrom(cs, k + 2)
  ELSE <<cs[k]>> \o RemoveBoldFrom(cs, k + 1)

RemoveBold(cs) == RemoveBoldFrom(cs, 1)

\* replace(/^#+/gm, ""), on one line
RECURSIVE RemoveHeading(_)
RemoveHeading(cs) ==
  IF cs # <<>> /\ Head(cs) = "#" THEN RemoveHeading(Tail(cs)) ELSE cs

NonEmpty(cs) == cs # <<>>

\* one line without the bold markers and the heading marks, trimmed
CleanLine(line) ==
  CHOOSE r \in {Trim(RemoveHeading(plain)) : plain \in {RemoveBold(line)}} : TRUE

cleanedLines(raw) ==
  SelectSeq([k \in 1..Len(raw.lines) |-> CleanLine(raw.lines[k])], NonEmpty)

\* the number of leading characters of cs that belong to S
RECURSIVE Leading(_, _)
Leading(cs, S) ==
  IF cs # <<>> /\ Head(cs) \in S THEN 1 + Leading(Tail(cs), S) ELSE 0

Drop(cs, n) == SubSeq(cs, n + 1, Len(cs))

NoMatch == [matched |-> FALSE, group |-> <<>>]

\* line.match(/^\d+[).]\s+(.+)/): group 1, on a trimmed line
questionRegex(line) ==
  LET d == Leading(line, Digits)
      afterMark == Drop(line, d + 1)
      w == Leading(afterMark, Whitespace)
      rest == Drop(afterMark, w)
  IN IF d >= 1 /\ Len(line) > d /\ line[d + 1] \in {")", "."}
        /\ w >= 1 /\ rest # <<>>
       THEN [matched |-> TRUE, group |-> rest]
       ELSE NoMatch

\* line.match(/^[-*]?\s*[A-DА-Га-г][).]\s*(.+)$/i): group 1,
\* on a trimmed line
optionRegex(line) ==
  LET afterBullet == IF line # <<>> /\ Head(line) \in {"-", "*"}
                       THEN Tail(line) ELSE line
      afterSpace == Drop(afterBullet, Leading(afterBullet, Whitespace))
      rest == Drop(afterSpace, 2)
      text == Drop(rest, Leading(rest, Whitespace))
  IN IF Len(afterSpace) >= 2 /\ afterSpace[1] \in OptionLetters
        /\ afterSpace[2] \in {")", "."} /\ text # <<>>
       THEN [matched |-> TRUE, group |-> text]
       ELSE NoMatch

\* the alternatives of the correct-answer pattern, lower case
CorrectMarkers ==
  { <<"cyr_ve", "cyr_ie", "cyr_er", "cyr_en">>,
    <<"cyr_pe", "cyr_er", "cyr_a", "cyr_ve", "cyr_i", "cyr_el">>,
    <<"c", "o", "r", "r", "e", "c", "t">>,
    <<"CHECK">>,
    <<"CHECKBOX">> }

\* pattern.test(text) under the flag i: some alternative occurs in the text
isCorrect(text) ==
  \E m \in CorrectMarkers : \E at \in 0..(Len(text) - Len(m)) :
    \A k \in 1..Len(m) : LowerOf(text[at + k]) = m[k]

\* typeof q?.question === "string" && Array.isArray(q?.options) &&
\* q.options.length === 4 && q.options.every((o) => typeof o === "string")
ValidQuestion(q) ==
  /\ Get(q, "question").t = "str"
  /\ Get(q, "options").t = "arr"
  /\ Len(Get(q, "options").a) = 4
  /\ \A o \in 1..Len(Get(q, "options").a) : Get(q, "options").a[o].t = "str"

\* an answer without the default: Number(q.answer)
AnswerOfNoDefault(q) == NumberOf(Get(q, "answer"))

\* answer: Number(q.answer ?? 0)
AnswerOf(q) == NumberOf(Coalesce(Get(q, "answer"), JNum(0)))

QuizQuestion(question, options, answer) ==
  [question |-> question, options |-> options, answer |-> answer,
   userAnswer |-> Undefined]

RECURSIVE MapQuestions(_)
MapQuestions(qs) ==
  IF qs = <<>> THEN <<>>
  ELSE <<QuizQuestion(Get(Head(qs), "question"), Get(Head(qs), "options").a,
                      AnswerOf(Head(qs)))>>
       \o MapQuestions(Tail(qs))

\* the questions of a parsed candidate, or <<>> for undefined; a candidate
\* that is null makes the property access throw, which the caller catches
parseQuestionsArray(parsed) ==
  IF Get(parsed, "questions").t = "arr"
    THEN MapQuestions(SelectSeq(Get(parsed, "questions").a, ValidQuestion))
    ELSE <<>>

\* JSON.parse(jsonCandidate) for the fenced block or the text between the
\* first { and the last }; strict is FALSE for the cleanJson form, which
\* tolerates the noise
Candidate(raw, strict) ==
  IF raw.json = NoJson \/ (strict /\ raw.noise) THEN NoJson
  ELSE IF raw.fence \/ raw.json.t = "obj" \/ ~raw.prose THEN raw.json
  ELSE NoJson

\* a value whose JSON text holds a "]"
HoldsBracket(v) ==
  \/ v.t = "arr"
  \/ v.t = "obj" /\ \E k \in DOMAIN v.o : v.o[k].t = "arr"

\* JSON.parse of {"questions": <fragment>}, the fragment being the lazy match
\* of /"questions"\s*:\s*(\[[\s\S]*?\])/: it ends at the first "]"
QuestionsFragment(raw, strict) ==
  IF raw.json = NoJson \/ Get(raw.json, "questions").t # "arr" THEN NoJson
  ELSE IF \E e \in 1..Len(Get(raw.json, "questions").a) :
            HoldsBracket(Get(raw.json, "questions").a[e])
    THEN NoJson
  ELSE IF strict /\ raw.noise THEN NoJson
  ELSE JObj([questions |-> Get(raw.json, "questions")])

HasQuestionsMatch(raw) ==
  raw.json # NoJson /\ Get(raw.json, "questions").t = "arr"

tryParsers(raw) ==
  <<Candidate(raw, TRUE), Candidate(raw, FALSE)>>
  \o (IF HasQuestionsMatch(raw)
        THEN <<QuestionsFragment(raw, TRUE), QuestionsFragment(raw, FALSE)>>
        ELSE <<>>)

\* the first candidate that parses and yields a question, from position c on
RECURSIVE FirstQuiz(_, _)
FirstQuiz(cands, c) ==
  IF c > Len(cands) THEN <<>>
  ELSE IF cands[c] # NoJson /\ parseQuestionsArray(cands[c]) # <<>>
    THEN parseQuestionsArray(cands[c])
  ELSE FirstQuiz(cands, c + 1)

\* a pass that numbers the marked option from 1
ScanLineFromOne(acc, line) ==
  LET qMatch == questionRegex(line)
      oMatch == optionRegex(line)
      cur == acc.current
  IN IF qMatch.matched
       THEN [quiz |-> IF acc.has /\ Len(cur.options) = 4
                        THEN Append(acc.quiz, cur) ELSE acc.quiz,
             has |-> TRUE,
             current |-> QuizQuestion(JChars(Trim(qMatch.group)), <<>>, JNum(0))]
     ELSE IF acc.has /\ oMatch.matched /\ Len(cur.options) < 4
       THEN LET text == Trim(oMatch.group)
                options == Append(cur.options, JChars(text))
            IN [acc EXCEPT !.current =
                  [cur EXCEPT !.options = options,
                              !.answer = IF isCorrect(text)
                                           THEN JNum(Len(options)) ELSE @]]
     ELSE acc

\* a pass that takes every option line, however many the question has
ScanLineUncapped(acc, line) ==
  LET qMatch == questionRegex(line)
      oMatch == optionRegex(line)
      cur == acc.current
  IN IF qMatch.matched
       THEN [quiz |-> IF acc.has /\ Len(cur.options) = 4
                        THEN Append(acc.quiz, cur) ELSE acc.quiz,
             has |-> TRUE,
             current |-> QuizQuestion(JChars(Trim(qMatch.group)), <<>>, JNum(0))]
     ELSE IF acc.has /\ oMatch.matched
       THEN LET text == Trim(oMatch.group)
                options == Append(cur.options, JChars(text))
            IN [acc EXCEPT !.current =
                  [cur EXCEPT !.options = options,
                              !.answer = IF isCorrect(text)
                                           THEN JNum(Len(options) - 1) ELSE @]]
     ELSE acc

\* one pass of the loop over cleanedLines
ScanLine(acc, line) ==
  LET qMatch == questionRegex(line)
      oMatch == optionRegex(line)
      cur == acc.current
  IN IF qMatch.matched
       THEN [quiz |-> IF acc.has /\ Len(cur.options) = 4
                        THEN Append(acc.quiz, cur) ELSE acc.quiz,
             has |-> TRUE,
             current |-> QuizQuestion(JChars(Trim(qMatch.group)), <<>>, JNum(0))]
     ELSE IF acc.has /\ oMatch.matched /\ Len(cur.options) < 4
       THEN LET text == Trim(oMatch.group)
                options == Append(cur.options, JChars(text))
            IN [acc EXCEPT !.current =
                  [cur EXCEPT !.options = options,
                              !.answer = IF isCorrect(text)
                                           THEN JNum(Len(options) - 1) ELSE @]]
     ELSE acc

\* the loop over the lines from position k on; acc is the state of the loop
RECURSIVE ScanLines(_, _, _)
ScanLines(acc, lines, k) ==
  IF k > Len(lines) THEN acc
  ELSE CHOOSE r \in {ScanLines(next, lines, k + 1) :
                       next \in {ScanLine(acc, lines[k])}} : TRUE

\* the state of the loop before the first line: current is null
StartScan ==
  [quiz |-> <<>>, has |-> FALSE,
   current |-> QuizQuestion(JChars(<<>>), <<>>, JNum(0))]

\* after the loop: the last question is pushed when it has four options
FinishScan(acc) ==
  IF acc.has /\ Len(acc.current.options) = 4
    THEN Append(acc.quiz, acc.current) ELSE acc.quiz

ScanAll(lines) ==
  CHOOSE r \in {FinishScan(acc) : acc \in {ScanLines(StartScan, lines, 1)}} : TRUE

\* the markdown fallback
FallbackQuiz(raw) ==
  CHOOSE r \in {ScanAll(lines) : lines \in {cleanedLines(raw)}} : TRUE

Quiz(qs) == [t |-> "quiz", qs |-> qs]

\* an extractor that hands out an empty list when it recovers nothing
extractQuizEmptyList(raw) ==
  LET fromJson == FirstQuiz(tryParsers(raw), 1)
      fromLines == FallbackQuiz(raw)
  IN IF fromJson # <<>> THEN [quiz |-> Quiz(fromJson), message |-> QuizReadyMessage]
     ELSE [quiz |-> Quiz(fromLines),
           message |-> IF fromLines # <<>> THEN QuizReadyMessage ELSE raw]

\* an extractor that consults the markdown lines before the JSON candidates
extractQuizLinesFirst(raw) ==
  LET fromJson == FirstQuiz(tryParsers(raw), 1)
      fromLines == FallbackQuiz(raw)
  IN IF fromLines # <<>>
       THEN [quiz |-> Quiz(fromLines), message |-> QuizReadyMessage]
     ELSE IF fromJson # <<>>
       THEN [quiz |-> Quiz(fromJson), message |-> QuizReadyMessage]
     ELSE [quiz |-> Undefined, message |-> raw]

extractQuiz(raw) ==
  LET fromJson == FirstQuiz(tryParsers(raw), 1)
      fromLines == FallbackQuiz(raw)
  IN IF fromJson # <<>> THEN [quiz |-> Quiz(fromJson), message |-> QuizReadyMessage]
     ELSE IF fromLines # <<>>
       THEN [quiz |-> Quiz(fromLines), message |-> QuizReadyMessage]
     ELSE [quiz |-> Undefined, message |-> raw]

(***************************************************************************)
(* page.tsx: parseInfographic, parseSlides, parseFlashcards.  Each returns *)
(* its payload, or JNull.                                                  *)
(***************************************************************************)
ValidBlock(b) == Get(b, "title").t = "str" /\ Get(b, "content").t = "str"

RECURSIVE MapBlocks(_)
MapBlocks(bs) ==
  IF bs = <<>> THEN <<>>
  ELSE <<[title |-> Get(Head(bs), "title"), content |-> Get(Head(bs), "content")]>>
       \o MapBlocks(Tail(bs))

parseInfographic(raw) ==
  LET parsed == ParseStripped(raw)
      blocks == MapBlocks(SelectSeq(Get(parsed, "blocks").a, ValidBlock))
  IN IF parsed # NoJson /\ Truthy(Get(parsed, "title"))
        /\ Get(parsed, "blocks").t = "arr" /\ blocks # <<>>
       THEN [t |-> "infographic", title |-> StringOf(Get(parsed, "title")),
             blocks |-> blocks,
             takeaway |-> IF Get(parsed, "takeaway").t = "str"
                            THEN Get(parsed, "takeaway") ELSE Undefined]
       ELSE JNull

ValidSlide(s) == Get(s, "title").t = "str" /\ Get(s, "bullets").t = "arr"

IsString(v) == v.t = "str"

HasBullets(s) == s.bullets # <<>>

RECURSIVE MapSlides(_)
MapSlides(ss) ==
  IF ss = <<>> THEN <<>>
  ELSE <<[title |-> Get(Head(ss), "title"),
          bullets |-> SelectSeq(Get(Head(ss), "bullets").a, IsString)]>>
       \o MapSlides(Tail(ss))

parseSlides(raw) ==
  LET parsed == ParseStripped(raw)
      slides == SelectSeq(MapSlides(SelectSeq(Get(parsed, "slides").a, ValidSlide)),
                          HasBullets)
  IN IF parsed # NoJson /\ Truthy(Get(parsed, "title"))
        /\ Get(parsed, "slides").t = "arr" /\ slides # <<>>
       THEN [t |-> "slides", title |-> StringOf(Get(parsed, "title")),
             slides |-> slides]
       ELSE JNull

\* a card filter that tests the front alone
ValidCardFrontOnly(c) == Get(c, "front").t = "str"

ValidCard(c) == Get(c, "front").t = "str" /\ Get(c, "back").t = "str"

RECURSIVE MapCards(_)
MapCards(cs) ==
  IF cs = <<>> THEN <<>>
  ELSE <<[front |-> Get(Head(cs), "front"), back |-> Get(Head(cs), "back")]>>
       \o MapCards(Tail(cs))

parseFlashcards(raw) ==
  LET parsed == ParseStripped(raw)
      cards == MapCards(SelectSeq(Get(parsed, "cards").a, ValidCard))
  IN IF parsed # NoJson /\ Get(parsed, "cards").t = "arr" /\ cards # <<>>
       THEN [t |-> "flashcards",
             title |-> IF Get(parsed, "title").t = "str"
                         THEN Get(parsed, "title") ELSE JStr("Cards"),
             cards |-> cards]
       ELSE JNull

(***************************************************************************)
(* gemini.ts: the WAV container.                                           *)
(***************************************************************************)
SampleRate == 24000
NumChannels == 1
BitsPerSample == 16
HeaderSize == 44

\* DataView.setUint32(off, n, true): four bytes, little-endian.  The byte
\* extraction below is the truncation to 32 bits for every n TLC can hold.
U32LE(n) ==
  << n % 256, (n \div 256) % 256, (n \div 65536) % 256, (n \div 16777216) % 256 >>

\* DataView.setUint16(off, n, true)
U16LE(n) == << n % 256, (n \div 256) % 256 >>

\* the little-endian 32-bit field at byte offset off (0-based) of a buffer
ReadU32LE(buf, off) ==
  buf[off + 1] + 256 * buf[off + 2] + 65536 * buf[off + 3] + 16777216 * buf[off + 4]

\* writeString(view, offset, string): the char codes of the string
writeString(string) ==
  CASE string = "RIFF" -> <<82, 73, 70, 70>>
    [] string = "WAVE" -> <<87, 65, 86, 69>>
    [] string = "fmt " -> <<102, 109, 116, 32>>
    [] string = "data" -> <<100, 97, 116, 97>>

createWavHeaderWith(dataLength, sampleRate, numChannels, bitsPerSample) ==
  writeString("RIFF") \o U32LE(36 + dataLength) \o writeString("WAVE")
  \o writeString("fmt ") \o U32LE(16) \o U16LE(1) \o U16LE(numChannels) \o U32LE(sampleRate)
  \o U32LE(sampleRate * numChannels * (bitsPerSample \div 8))
  \o U16LE(numChannels * (bitsPerSample \div 8))
  \o U16LE(bitsPerSample)
  \o writeString("data") \o U32LE(dataLength)

\* a header whose data-length field holds the RIFF size
createWavHeaderRiffSize(dataLength) ==
  SubSeq(createWavHeaderWith(dataLength, SampleRate, NumChannels, BitsPerSample),
         1, HeaderSize - 4)
  \o U32LE(36 + dataLength)

createWavHeader(dataLength) ==
  createWavHeaderWith(dataLength, SampleRate, NumChannels, BitsPerSample)

\* Buffer.toString('base64') of the bytes of b from position k on: sextets
\* 0..63, and 64 for the padding '='
RECURSIVE Base64From(_, _)
Base64From(b, k) ==
  IF k > Len(b) THEN <<>>
  ELSE IF k = Len(b) THEN << b[k] \div 4, (b[k] % 4) * 16, 64, 64 >>
  ELSE IF k + 1 = Len(b)
    THEN << b[k] \div 4, (b[k] % 4) * 16 + b[k + 1] \div 16,
            (b[k + 1] % 16) * 4, 64 >>
  ELSE << b[k] \div 4, (b[k] % 4) * 16 + b[k + 1] \div 16,
          (b[k + 1] % 16) * 4 + b[k + 2] \div 64, b[k + 2] % 64 >>
       \o Base64From(b, k + 3)

Base64(b) == Base64From(b, 1)

(***************************************************************************)
(* gemini.ts: generateMultiSpeakerSpeech.  outcomes[m] is what the TTS     *)
(* model m answers: ok with the decoded sample bytes pcm, or a failure.    *)
(***************************************************************************)
TtsModels == <<"gemini-2.5-pro-preview-tts", "gemini-2.5-flash-preview-tts">>

PcmBytes == {1, 2}

RECURSIVE SeqsUpTo(_, _)
SeqsUpTo(S, n) ==
  IF n = 0 THEN {<<>>}
  ELSE LET shorter == SeqsUpTo(S, n - 1)
       IN shorter \cup {Append(s, x) : s \in shorter, x \in S}

\* a response without audio data makes the model's attempt throw, so an
\* answer that is ok holds at least one byte
TtsOutcomes ==
  {[ok |-> FALSE, pcm |-> <<>>]}
  \cup {[ok |-> TRUE, pcm |-> p] : p \in SeqsUpTo(PcmBytes, MaxPcm) \ {<<>>}}

\* the answers of the models to one call: a model after the first one that
\* answers is not asked, and its entry is a failure
TtsAnswers ==
  {outcomes \in [1..Len(TtsModels) -> TtsOutcomes] :
     \A m \in 1..Len(TtsModels) :
       (\E e \in 1..(m - 1) : outcomes[e].ok) => ~outcomes[m].ok}

\* the fetches made up to model m, in the order they were made
ModelCalls(outcomes, m) ==
  [c \in 1..m |-> [model |-> TtsModels[c], ok |-> outcomes[c].ok,
                   pcm |-> outcomes[c].pcm]]

\* a loop that asks every model before it returns the first audio it got
RECURSIVE TryModelsAskAll(_, _)
TryModelsAskAll(outcomes, m) ==
  IF m > Len(TtsModels)
    THEN [threw |-> TRUE, buffer |-> <<>>, calls |-> ModelCalls(outcomes, m - 1)]
  ELSE IF outcomes[m].ok
    THEN [threw |-> FALSE,
          buffer |-> createWavHeader(Len(outcomes[m].pcm)) \o outcomes[m].pcm,
          calls |-> ModelCalls(outcomes, Len(TtsModels))]
  ELSE TryModelsAskAll(outcomes, m + 1)

\* the loop over the models from position m on: the first model that answers
\* decides; threw is set when every model has failed; calls are the fetches
\* made
RECURSIVE TryModels(_, _)
TryModels(outcomes, m) ==
  IF m > Len(TtsModels)
    THEN [threw |-> TRUE, buffer |-> <<>>, calls |-> ModelCalls(outcomes, m - 1)]
  ELSE IF outcomes[m].ok
    THEN [threw |-> FALSE,
          buffer |-> createWavHeader(Len(outcomes[m].pcm)) \o outcomes[m].pcm,
          calls |-> ModelCalls(outcomes, m)]
  ELSE TryModels(outcomes, m + 1)

generateMultiSpeakerSpeech(outcomes) == TryModels(outcomes, 1)

(***************************************************************************)
(* route.ts: POST, mode audio.                                             *)
(***************************************************************************)
CHUNK_SIZE == 30

Line(k) ==
  JObj([speaker |-> JStr(IF k % 2 = 1 THEN "Host A" ELSE "Host B"),
        text |-> JNum(k)])

Script(n, titled) ==
  IF titled
    THEN JObj([title |-> JStr("Podcast Title"),
               dialogue |-> JArr([k \in 1..n |-> Line(k)])])
    ELSE JObj([dialogue |-> JArr([k \in 1..n |-> Line(k)])])

\* the lengths of the dialogues of the model: around the chunk boundaries
DialogueLengths ==
  {n \in 0..MaxDialogue :
     \E c \in 0..(MaxDialogue \div CHUNK_SIZE) :
       n \in {c * CHUNK_SIZE - 1, c * CHUNK_SIZE, c * CHUNK_SIZE + 1}}

\* what runGemini can return in mode audio
ScriptTexts ==
  {JsonText(FALSE, FALSE, FALSE, Script(n, TRUE)) : n \in DialogueLengths}
  \cup {JsonText(TRUE, FALSE, FALSE, Script(n, FALSE)) : n \in {0, 1, CHUNK_SIZE + 1}}
  \cup {JsonText(FALSE, FALSE, FALSE, JObj([title |-> JStr("Podcast Title")])),
        JsonText(FALSE, TRUE, FALSE, Script(1, TRUE)),
        JsonText(FALSE, FALSE, TRUE, Script(1, TRUE)),
        MarkdownText(<< <<"H", "i">> >>)}

\* scriptData.title || <fixed title>
AudioTitle(data) ==
  IF Get(data, "title").t = "str" /\ Get(data, "title").s # ""
    THEN Get(data, "title") ELSE JStr("Podcast")

\* runGemini resolves or rejects; the script is parsed
AudioScript ==
  /\ audioPc = "script"
  /\ \/ /\ ~apiKey
        /\ response' = [status |-> 500,
                        body |-> [error |-> Lit("GOOGLE_API_KEY missing")]]
        /\ audioPc' = "done"
        /\ UNCHANGED <<scriptData, dialogue>>
     \/ /\ apiKey
        /\ response' = [status |-> 500, body |-> [error |-> Lit("upstream")]]
        /\ audioPc' = "done"
        /\ UNCHANGED <<scriptData, dialogue>>
     \/ /\ apiKey
        /\ \E scriptRaw \in ScriptTexts :
             LET parsed == ParseStripped(scriptRaw) IN
             IF parsed = NoJson
               THEN /\ response' = [status |-> 200, body |-> [text |-> scriptRaw]]
                    /\ audioPc' = "done"
                    /\ UNCHANGED <<scriptData, dialogue>>
               ELSE /\ scriptData' = parsed
                    /\ dialogue' = (IF Get(parsed, "dialogue").t = "arr"
                                      THEN Get(parsed, "dialogue").a ELSE <<>>)
                    /\ audioPc' = "loop"
                    /\ UNCHANGED response
  /\ UNCHANGED <<apiKey, i, allPcmChunks, totalCombinedPcmLength, finalWavFile,
                 ttsChunks, ttsResults>>
  /\ UNCHANGED <<clientVars, quizVars, sourceVars, videoVars, trimVars, jobVars>>

\* what one pass of the chunk loop keeps of the buffer a call returned
KeepPcm(result) ==
  IF ~result.threw /\ Len(result.buffer) > HeaderSize
    THEN << SubSeq(result.buffer, HeaderSize + 1, Len(result.buffer)) >>
    ELSE <<>>

\* one pass of the chunk loop: the call for dialogue.slice(i, i + CHUNK_SIZE)
AudioChunk ==
  /\ audioPc = "loop"
  /\ i < Len(dialogue)
  /\ \E outcomes \in TtsAnswers :
       LET chunk == Slice(dialogue, i, i + CHUNK_SIZE)
           result == generateMultiSpeakerSpeech(outcomes)
           kept == KeepPcm(result)
       IN /\ ttsChunks' = Append(ttsChunks, chunk)
          /\ ttsResults' = Append(ttsResults, result)
          /\ allPcmChunks' = allPcmChunks \o kept
          /\ totalCombinedPcmLength' = totalCombinedPcmLength + SumLen(kept)
  /\ i' = i + CHUNK_SIZE
  /\ UNCHANGED <<audioPc, apiKey, scriptData, dialogue, finalWavFile, response>>
  /\ UNCHANGED <<clientVars, quizVars, sourceVars, videoVars, trimVars, jobVars>>

\* a stitch whose offset never advances: every chunk is set at offset 0 of
\* the zeroed buffer
StitchAtZero(chunks, total) ==
  [p \in 1..total |->
     LET over == {k \in 1..Len(chunks) : Len(chunks[k]) >= p}
     IN IF over = {} THEN 0
        ELSE chunks[CHOOSE k \in over : \A other \in over : other <= k][p]]

\* finalCombinedPcm: a buffer of totalCombinedPcmLength bytes, each chunk
\* set at its offset
Stitch(chunks, total) == SubSeq(Flatten(chunks), 1, total)

\* the loop is over: stitch, write the header, answer
AudioStitch ==
  /\ audioPc = "loop"
  /\ i >= Len(dialogue)
  /\ LET finalCombinedPcm == Stitch(allPcmChunks, totalCombinedPcmLength)
         header == createWavHeader(totalCombinedPcmLength)
         file == header \o finalCombinedPcm
     IN /\ finalWavFile' = file
        /\ response' =
             [status |-> 200,
              body |-> [audioProject |->
                          [t |-> "audio", title |-> AudioTitle(scriptData),
                           audioUrl |-> [mime |-> "audio/wav",
                                         base64 |-> Base64(file)]],
                        text |-> Lit("Podcast ready.")]]
  /\ audioPc' = "done"
  /\ UNCHANGED <<apiKey, scriptData, dialogue, i, allPcmChunks,
                 totalCombinedPcmLength, ttsChunks, ttsResults>>
  /\ UNCHANGED <<clientVars, quizVars, sourceVars, videoVars, trimVars, jobVars>>

(***************************************************************************)
(* page.tsx: the Home component.                                           *)
(***************************************************************************)
\* the cards of the studio that have a button (mindmap and report are
\* filtered out)
StudioCards == {"audio", "video", "flashcards", "quiz", "infographic", "slides"}

\* studioCards.find((c) => c.key === mode)?.title || mode
CardTitle(mode) ==
  CASE mode = "audio" -> "Podcast"
    [] mode = "video" -> "Video"
    [] mode = "flashcards" -> "Cards"
    [] mode = "quiz" -> "Quiz"
    [] mode = "infographic" -> "Infographic"
    [] mode = "slides" -> "Slides"
    [] OTHER -> mode

\* d.k for the body d of a response
Field(d, k) == IF k \in DOMAIN d THEN d[k] ELSE Undefined

NewItem(id, mode) ==
  [id |-> id, mode |-> mode, title |-> CardTitle(mode), status |-> "loading",
   content |-> Lit(""), quiz |-> Undefined, infographic |-> Undefined,
   slides |-> Undefined, flashcards |-> Undefined, video |-> Undefined,
   audioProject |-> Undefined, image |-> Undefined]

NoAnswerMessage == Lit("No answer")
QuizFailedMessage == Lit("Could not parse the quiz. Try again.")
InfographicReadyMessage == Lit("Infographic ready. Click to view.")
SlidesReadyMessage == Lit("Slides ready. Click to view.")
CardsReadyMessage == Lit("Cards ready. Click to view.")
VideoReadyMessage == Lit("Video ready. Click to view.")
PodcastReadyMessage == Lit("Podcast ready. Click to listen.")

\* a value as a payload: the falsy ones count as absent
OrUndefined(v) == IF Truthy(v) THEN v ELSE Undefined

\* a quizPayload read off the text in every mode
QuizPayloadAnyMode(mode, content) ==
  IF extractQuiz(content).quiz.t = "quiz" /\ extractQuiz(content).quiz.qs # <<>>
    THEN extractQuiz(content).quiz ELSE Undefined

\* runStudio: quizPayload, set in the branch of mode quiz alone
QuizPayload(mode, content) ==
  IF mode = "quiz" /\ extractQuiz(content).quiz.t = "quiz"
     /\ extractQuiz(content).quiz.qs # <<>>
    THEN extractQuiz(content).quiz ELSE Undefined

\* runStudio, from the parsed response to the fields of the ready item
StudioFields(mode, data) ==
  LET content0 == Coalesce(Coalesce(Field(data, "text"), Field(data, "error")),
                           NoAnswerMessage)
      parsedQuiz == extractQuiz(content0)
      quizPayload == QuizPayload(mode, content0)
      imagePayload == Field(data, "image")
      parsedInfographic == parseInfographic(content0)
      infographicPayload ==
        IF mode = "infographic" /\ ~Truthy(imagePayload)
           /\ Truthy(parsedInfographic)
          THEN parsedInfographic ELSE Undefined
      parsedSlides == parseSlides(content0)
      slidesPayload ==
        IF mode = "slides" /\ ~Truthy(Field(data, "slides"))
           /\ Truthy(parsedSlides)
          THEN parsedSlides ELSE Field(data, "slides")
      parsedFlashcards == parseFlashcards(content0)
      flashcardsPayload ==
        IF mode = "flashcards" /\ Truthy(parsedFlashcards)
          THEN parsedFlashcards ELSE Undefined
      videoPayload == Field(data, "video")
      audioPayload == Field(data, "audioProject")
      content ==
        CASE mode = "quiz" ->
               IF quizPayload # Undefined THEN QuizReadyMessage
               ELSE IF parsedQuiz.message = NoAnswerMessage THEN QuizFailedMessage
               ELSE parsedQuiz.message
          [] mode = "infographic" ->
               IF Truthy(imagePayload) \/ infographicPayload # Undefined
                 THEN InfographicReadyMessage ELSE content0
          [] mode = "slides" ->
               IF Truthy(slidesPayload) THEN SlidesReadyMessage ELSE content0
          [] mode = "flashcards" ->
               IF flashcardsPayload # Undefined THEN CardsReadyMessage
               ELSE content0
          [] mode = "video" /\ Truthy(videoPayload) -> VideoReadyMessage
          [] mode = "audio" /\ Truthy(audioPayload) -> PodcastReadyMessage
          [] OTHER -> content0
  IN [status |-> "ready", content |-> content, quiz |-> quizPayload,
      infographic |-> infographicPayload, slides |-> slidesPayload,
      flashcards |-> flashcardsPayload, video |-> videoPayload,
      audioProject |-> audioPayload, image |-> imagePayload]

\* { ...item, ...fields }
Merge(item, fields) ==
  [k \in DOMAIN item |-> IF k \in DOMAIN fields THEN fields[k] ELSE item[k]]

\* a map that leaves out the test of the id
MapResultsAll(prev, id, fields) ==
  [k \in 1..Len(prev) |-> Merge(prev[k], fields)]

\* a map that merges the fields into the newest record, whatever its id
MapResultsNewest(prev, id, fields) ==
  [k \in 1..Len(prev) |-> IF k = 1 THEN Merge(prev[k], fields) ELSE prev[k]]

\* prev.map((item) => item.id === id ? { ...item, ...fields } : item)
MapResults(prev, id, fields) ==
  [k \in 1..Len(prev) |->
     IF prev[k].id = id THEN Merge(prev[k], fields) ELSE prev[k]]

\* runStudio up to the fetch
StartStudio(mode) ==
  /\ studioLoading' = mode
  /\ studioResults' = <<NewItem(nextId, mode)>> \o studioResults
  /\ inflight' = inflight \cup {[kind |-> "studio", id |-> nextId, mode |-> mode]}
  /\ nextId' = nextId + 1
  /\ UNCHANGED <<messages, isChatLoading, modal, input>>

\* runStudio from the response on: the try block and the finally
SettleStudio(req, data) ==
  /\ studioResults' = MapResults(studioResults, req.id, StudioFields(req.mode, data))
  /\ studioLoading' = "null"
  /\ inflight' = inflight \ {req}
  /\ UNCHANGED <<messages, isChatLoading, modal, nextId, input>>

\* a catch that leaves the record as it is
FailStudioKeepsRecord(req, message) ==
  /\ studioLoading' = "null"
  /\ inflight' = inflight \ {req}
  /\ UNCHANGED <<studioResults, messages, isChatLoading, modal, nextId, input>>

\* runStudio when fetch or res.json() rejects: the catch and the finally
FailStudio(req, message) ==
  /\ studioResults' = MapResults(studioResults, req.id,
                                 [status |-> "error", content |-> message])
  /\ studioLoading' = "null"
  /\ inflight' = inflight \ {req}
  /\ UNCHANGED <<messages, isChatLoading, modal, nextId, input>>

TransportError == Lit("Error: Failed to fetch")

\* ---- chat ----
ChatFallbackMessage == Lit("Could not generate an answer")

\* the prompts of the suggested buttons
Suggested == { <<"S", "u", "m">> }

\* what the user types into the input
InputTexts == { <<>>, <<" ">>, <<"h", "i">> }

TypeInput ==
  /\ \E text \in InputTexts : input' = text
  /\ UNCHANGED <<messages, isChatLoading, studioLoading, studioResults, modal,
                 inflight, nextId>>
  /\ UNCHANGED <<audioVars, quizVars, sourceVars, videoVars, trimVars, jobVars>>

\* a sendMessage that tests the prompt as typed, without trim()
sendMessageUntrimmed(value) ==
  LET prompt == IF value = Undefined THEN input ELSE value.c IN
  IF prompt = <<>> THEN UNCHANGED clientVars
  ELSE /\ messages' = Append(messages, [role |-> "user", content |-> JChars(prompt)])
       /\ input' = <<>>
       /\ isChatLoading' = TRUE
       /\ inflight' = inflight \cup {[kind |-> "chat", id |-> nextId, mode |-> "chat"]}
       /\ nextId' = nextId + 1
       /\ UNCHANGED <<studioLoading, studioResults, modal>>

\* sendMessage(value) up to the fetch; value is Undefined for the input
sendMessage(value) ==
  LET prompt == Trim(IF value = Undefined THEN input ELSE value.c) IN
  IF prompt = <<>> THEN UNCHANGED clientVars
  ELSE /\ messages' = Append(messages, [role |-> "user", content |-> JChars(prompt)])
       /\ input' = <<>>
       /\ isChatLoading' = TRUE
       /\ inflight' = inflight \cup {[kind |-> "chat", id |-> nextId, mode |-> "chat"]}
       /\ nextId' = nextId + 1
       /\ UNCHANGED <<studioLoading, studioResults, modal>>

\* a reply that reads data.text alone
ChatReplyTextOnly(data) == Field(data, "text")

\* data.text || data.error || <fixed text>
ChatReply(data) ==
  IF Truthy(Field(data, "text")) THEN Field(data, "text")
  ELSE IF Truthy(Field(data, "error")) THEN Field(data, "error")
  ELSE ChatFallbackMessage

\* sendMessage from the response on
SettleChat(req, content) ==
  /\ messages' = Append(messages, [role |-> "assistant", content |-> content])
  /\ isChatLoading' = FALSE
  /\ inflight' = inflight \ {req}
  /\ UNCHANGED <<studioLoading, studioResults, modal, nextId, input>>

\* ---- the sources panel ----
\* the file tab button: setActiveTab(activeTab === "file" ? null : "file")
ToggleFileTab ==
  /\ activeTab' = IF activeTab = "file" THEN "null" ELSE "file"
  /\ UNCHANGED <<sources, selectedSources, clientVars, audioVars, quizVars,
                 videoVars, trimVars, jobVars>>

\* a source as /api/upload builds it; generateSummary returns "" when it
\* has no key or its call fails
UploadedSource(id, summary) == [id |-> id, type |-> "file", summary |-> summary]

SampleSummary == Lit("Summary of the file.")

\* the bodies /api/upload answers the request with: its catch, one file, two
\* files the first of which got no summary
UploadResponses(req) ==
  { [error |-> Lit("No file")],
    [sources |-> << UploadedSource(<<req.id, 1>>, SampleSummary) >>],
    [sources |-> << UploadedSource(<<req.id, 1>>, Lit("")),
                    UploadedSource(<<req.id, 2>>, SampleSummary) >>] }

\* data.sources.forEach: one assistant message for each summary
SummaryMessages(srcs) ==
  LET withSummary == SelectSeq(srcs, LAMBDA src : Truthy(src.summary))
  IN [k \in 1..Len(withSummary) |->
        [role |-> "assistant", content |-> withSummary[k].summary]]

\* the file input's onChange with a non-empty FileList, up to the fetch; the
\* request takes the next number to be told apart
PickFiles ==
  /\ activeTab = "file"
  /\ nextId <= MaxRequests
  /\ inflight' = inflight \cup {[kind |-> "upload", id |-> nextId, mode |-> "upload"]}
  /\ nextId' = nextId + 1
  /\ UNCHANGED <<messages, isChatLoading, studioLoading, studioResults, modal,
                 input>>
  /\ UNCHANGED <<sourceVars, audioVars, quizVars, videoVars, trimVars, jobVars>>

\* a handler that puts the summaries in front of the history
handleFileUploadInFront(req, data) ==
  /\ IF "sources" \in DOMAIN data
       THEN /\ sources' = sources \o data.sources
            /\ selectedSources' =
                 selectedSources
                   \o [k \in 1..Len(data.sources) |-> data.sources[k].id]
            /\ activeTab' = "null"
            /\ messages' = SummaryMessages(data.sources) \o messages
       ELSE UNCHANGED <<sources, selectedSources, activeTab, messages>>
  /\ inflight' = inflight \ {req}
  /\ UNCHANGED <<isChatLoading, studioLoading, studioResults, modal, nextId,
                 input>>

\* handleFileUpload from the response on.  A fetch that rejects leaves the
\* state as a body without sources does.
handleFileUpload(req, data) ==
  /\ IF "sources" \in DOMAIN data
       THEN /\ sources' = sources \o data.sources
            /\ selectedSources' =
                 selectedSources
                   \o [k \in 1..Len(data.sources) |-> data.sources[k].id]
            /\ activeTab' = "null"
            /\ messages' = messages \o SummaryMessages(data.sources)
       ELSE UNCHANGED <<sources, selectedSources, activeTab, messages>>
  /\ inflight' = inflight \ {req}
  /\ UNCHANGED <<isChatLoading, studioLoading, studioResults, modal, nextId,
                 input>>

\* /api/upload answers
UploadResponse ==
  /\ \E req \in inflight :
       /\ req.kind = "upload"
       /\ \E data \in UploadResponses(req) : handleFileUpload(req, data)
  /\ UNCHANGED <<audioVars, quizVars, videoVars, trimVars, jobVars>>

\* a toggle that never removes an id
toggleSourceAddOnly(prev, id) == Append(prev, id)

\* prev.includes(id) ? prev.filter((s) => s !== id) : [...prev, id]
toggleSource(prev, id) ==
  IF \E k \in 1..Len(prev) : prev[k] = id
    THEN SelectSeq(prev, LAMBDA s : s # id)
    ELSE Append(prev, id)

\* the onClick of the button of source src
ClickSource(src) ==
  /\ selectedSources' = toggleSource(selectedSources, src.id)
  /\ UNCHANGED <<sources, activeTab, clientVars, audioVars, quizVars, videoVars, trimVars, jobVars>>

\* a click on one of the source buttons
ToggleSource == \E k \in 1..Len(sources) : ClickSource(sources[k])

\* ---- the modal ----
NoModal ==
  [open |-> FALSE, title |-> "", content |-> Lit(""), quiz |-> JNull,
   infographic |-> JNull, slides |-> JNull, flashcards |-> JNull,
   video |-> JNull, audio |-> JNull, image |-> JNull, step |-> 0]

\* v ?? null
OrNull(v) == IF v = Undefined THEN JNull ELSE v

\* the onClick of a result button: what the modal is set to for an item
OpenedModal(item) ==
  LET parsed == extractQuiz(item.content)
      parsedQuiz == IF ~Truthy(item.quiz) /\ parsed.quiz.t = "quiz"
                       /\ parsed.quiz.qs # <<>>
                      THEN parsed.quiz ELSE item.quiz
      content1 == IF ~Truthy(item.quiz) /\ Truthy(parsed.message)
                    THEN parsed.message ELSE item.content
      reInfographic == ~Truthy(item.infographic) /\ item.mode = "infographic"
      parsedInfographic ==
        IF reInfographic THEN OrUndefined(parseInfographic(item.content))
        ELSE item.infographic
      content2 == IF reInfographic /\ Truthy(parsedInfographic)
                    THEN InfographicReadyMessage ELSE content1
      reSlides == ~Truthy(item.slides) /\ item.mode = "slides"
      parsedSlides ==
        IF reSlides THEN OrUndefined(parseSlides(item.content)) ELSE item.slides
      content3 == IF reSlides /\ Truthy(parsedSlides)
                    THEN SlidesReadyMessage ELSE content2
      reFlashcards == ~Truthy(item.flashcards) /\ item.mode = "flashcards"
      parsedFlashcards ==
        IF reFlashcards THEN OrUndefined(parseFlashcards(item.content))
        ELSE item.flashcards
      content4 == IF reFlashcards /\ Truthy(parsedFlashcards)
                    THEN CardsReadyMessage ELSE content3
  IN [open |-> TRUE, title |-> item.title, content |-> content4,
      quiz |-> IF Truthy(parsedQuiz) THEN parsedQuiz ELSE JNull,
      infographic |-> OrNull(parsedInfographic),
      slides |-> OrNull(parsedSlides),
      flashcards |-> OrNull(parsedFlashcards),
      video |-> OrNull(item.video), audio |-> OrNull(item.audioProject),
      image |-> OrNull(item.image), step |-> 0]

OpenResult ==
  /\ \E k \in 1..Len(studioResults) :
       /\ studioResults[k].status \in {"ready", "error"}
       /\ modal' = OpenedModal(studioResults[k])
  /\ UNCHANGED <<messages, isChatLoading, studioLoading, studioResults,
                 inflight, nextId, input>>
  /\ UNCHANGED <<audioVars, quizVars, sourceVars, videoVars, trimVars, jobVars>>

CloseModal ==
  /\ modal.open
  /\ modal' = [modal EXCEPT !.open = FALSE]
  /\ UNCHANGED <<messages, isChatLoading, studioLoading, studioResults,
                 inflight, nextId, input>>
  /\ UNCHANGED <<audioVars, quizVars, sourceVars, videoVars, trimVars, jobVars>>

\* ---- QuizView ----
\* the modal body renders QuizView
QuizShown == modal.open /\ studioLoading = "null" /\ modal.quiz.t = "quiz"

Min(a, b) == IF a < b THEN a ELSE b
Max(a, b) == IF a > b THEN a ELSE b

\* Math.min(step, Math.max(0, total - 1))
currentIndex == Min(modal.step, Max(0, Len(modal.quiz.qs) - 1))

\* a select that leaves out the test of userAnswer
selectUnlocked(quiz, idx, option) ==
  [k \in 1..Len(quiz) |->
     IF k - 1 = idx THEN [quiz[k] EXCEPT !.userAnswer = JNum(option)]
     ELSE quiz[k]]

\* select(idx, option): the quiz handed to setQuiz (idx counts from 0)
select(quiz, idx, option) ==
  [k \in 1..Len(quiz) |->
     IF k - 1 = idx /\ quiz[k].userAnswer = Undefined
       THEN [quiz[k] EXCEPT !.userAnswer = JNum(option)]
       ELSE quiz[k]]

\* a click whose answer is also written into the stored records that hold a
\* quiz, as it would be if the modal shared its questions with them
QuizSelectWritesThrough ==
  /\ QuizShown
  /\ \E oi \in 0..(Len(modal.quiz.qs[currentIndex + 1].options) - 1) :
       modal' = [modal EXCEPT !.quiz = Quiz(select(modal.quiz.qs, currentIndex, oi))]
  /\ studioResults' =
       [k \in 1..Len(studioResults) |->
          IF Truthy(studioResults[k].quiz)
            THEN [studioResults[k] EXCEPT !.quiz = modal'.quiz]
            ELSE studioResults[k]]
  /\ UNCHANGED <<messages, isChatLoading, studioLoading, inflight, nextId, input>>
  /\ UNCHANGED <<audioVars, quizVars, sourceVars, videoVars, trimVars, jobVars>>

\* a click on option oi of the current question.  The button is disabled once
\* the question is answered; the handler is modelled for every click, so the
\* model has every behaviour of the page and more.
QuizSelect ==
  /\ QuizShown
  /\ \E oi \in 0..(Len(modal.quiz.qs[currentIndex + 1].options) - 1) :
       modal' = [modal EXCEPT !.quiz = Quiz(select(modal.quiz.qs, currentIndex, oi))]
  /\ UNCHANGED <<messages, isChatLoading, studioLoading, studioResults,
                 inflight, nextId, input>>
  /\ UNCHANGED <<audioVars, quizVars, sourceVars, videoVars, trimVars, jobVars>>

QuizPrev ==
  /\ QuizShown
  /\ currentIndex # 0
  /\ modal' = [modal EXCEPT !.step = Max(0, currentIndex - 1)]
  /\ UNCHANGED <<messages, isChatLoading, studioLoading, studioResults,
                 inflight, nextId, input>>
  /\ UNCHANGED <<audioVars, quizVars, sourceVars, videoVars, trimVars, jobVars>>

QuizNext ==
  /\ QuizShown
  /\ modal.quiz.qs[currentIndex + 1].userAnswer # Undefined
  /\ currentIndex # Len(modal.quiz.qs) - 1
  /\ modal' = [modal EXCEPT !.step = Min(Len(modal.quiz.qs) - 1, currentIndex + 1)]
  /\ UNCHANGED <<messages, isChatLoading, studioLoading, studioResults,
                 inflight, nextId, input>>
  /\ UNCHANGED <<audioVars, quizVars, sourceVars, videoVars, trimVars, jobVars>>

(***************************************************************************)
(* page.tsx: the JobPrepView component.                                    *)
(***************************************************************************)
\* what a job_quiz request is answered with, after JSON.parse and map: lists
\* of questions with two options each
TestQuestionLists(maxQuestions) ==
  SeqsUpTo({[options |-> 2, answer |-> a] : a \in {0, 1}}, maxQuestions)

\* new Array(questions.length).fill(-1)
NoAnswers(questions) == [k \in 1..Len(questions) |-> -1]

\* the pending fetches of a kind
PendingJobs(kind) == {req \in jobPending : req.kind = kind}

\* handleCreatePlan up to the fetch; the button is disabled while isLoading
\* (the title and the requirements are taken as filled in)
CreatePlan ==
  /\ jobStep = "input"
  /\ ~isLoading
  /\ Cardinality(jobPending) < MaxJobRequests
  /\ isLoading' = TRUE
  /\ jobPending' = jobPending \cup {[kind |-> "plan", n |-> Cardinality(PendingJobs("plan"))]}
  /\ UNCHANGED <<jobStep, testQuestions, userAnswers, showTestResults>>
  /\ UNCHANGED <<clientVars, sourceVars, audioVars, quizVars, videoVars, trimVars>>

\* handleCreatePlan from the response on: the plan is set and the dashboard
\* shown, or the catch alerts; the finally resets isLoading
PlanResponse ==
  /\ \E req \in PendingJobs("plan") :
       /\ jobPending' = jobPending \ {req}
       /\ \/ jobStep' = "dashboard"
          \/ UNCHANGED jobStep
  /\ isLoading' = FALSE
  /\ UNCHANGED <<testQuestions, userAnswers, showTestResults>>
  /\ UNCHANGED <<clientVars, sourceVars, audioVars, quizVars, videoVars, trimVars>>

\* the buttons that call setStep
GoTo(from, to) ==
  /\ jobStep = from
  /\ jobStep' = to
  /\ UNCHANGED <<isLoading, testQuestions, userAnswers, showTestResults, jobPending>>
  /\ UNCHANGED <<clientVars, sourceVars, audioVars, quizVars, videoVars, trimVars>>

JobNavigate ==
  \/ GoTo("dashboard", "input") \/ GoTo("dashboard", "plan")
  \/ GoTo("plan", "dashboard") \/ GoTo("test", "dashboard")
  \/ (showTestResults /\ GoTo("test", "plan"))

\* handleStartTest up to the fetch; the button is not disabled
StartTest ==
  /\ jobStep = "dashboard"
  /\ Cardinality(jobPending) < MaxJobRequests
  /\ isLoading' = TRUE
  /\ jobPending' = jobPending \cup {[kind |-> "quiz", n |-> Cardinality(PendingJobs("quiz"))]}
  /\ UNCHANGED <<jobStep, testQuestions, userAnswers, showTestResults>>
  /\ UNCHANGED <<clientVars, sourceVars, audioVars, quizVars, videoVars, trimVars>>

\* handleStartTest from the response on, with a list of questions
TestResponse ==
  /\ \E req \in PendingJobs("quiz") : jobPending' = jobPending \ {req}
  /\ \E questions \in TestQuestionLists(MaxQuestions) :
       /\ testQuestions' = questions
       /\ userAnswers' = NoAnswers(questions)
  /\ showTestResults' = FALSE
  /\ jobStep' = "test"
  /\ isLoading' = FALSE
  /\ UNCHANGED <<clientVars, sourceVars, audioVars, quizVars, videoVars, trimVars>>

\* handleStartTest when the body holds an error or no text, the text is not
\* JSON, or the fetch rejects: the catch alerts, the finally resets isLoading
TestFailure ==
  /\ \E req \in PendingJobs("quiz") : jobPending' = jobPending \ {req}
  /\ isLoading' = FALSE
  /\ UNCHANGED <<jobStep, testQuestions, userAnswers, showTestResults>>
  /\ UNCHANGED <<clientVars, sourceVars, audioVars, quizVars, videoVars, trimVars>>

\* a handler that stores the option whether or not the results are shown
clickOptionAlways(answers, shown, qIdx, optIdx) ==
  [answers EXCEPT ![qIdx + 1] = optIdx]

\* the onClick of option optIdx of question qIdx (both count from 0): the
\* answers handed to setUserAnswers
clickOption(answers, shown, qIdx, optIdx) ==
  IF ~shown THEN [answers EXCEPT ![qIdx + 1] = optIdx] ELSE answers

\* a click on an option.  The button is disabled while the results are
\* shown; the handler is modelled for every click.
ClickOption ==
  /\ jobStep = "test"
  /\ \E qIdx \in 0..(Len(testQuestions) - 1) :
       \E optIdx \in 0..(testQuestions[qIdx + 1].options - 1) :
         userAnswers' = clickOption(userAnswers, showTestResults, qIdx, optIdx)
  /\ UNCHANGED <<jobStep, isLoading, testQuestions, showTestResults, jobPending>>
  /\ UNCHANGED <<clientVars, sourceVars, audioVars, quizVars, videoVars, trimVars>>

\* userAnswers.includes(-1)
IncludesUnanswered(answers) == \E k \in 1..Len(answers) : answers[k] = -1

\* the submit button, disabled while an answer is missing
SubmitAnswers ==
  /\ jobStep = "test"
  /\ ~showTestResults
  /\ ~IncludesUnanswered(userAnswers)
  /\ showTestResults' = TRUE
  /\ UNCHANGED <<jobStep, isLoading, testQuestions, userAnswers, jobPending>>
  /\ UNCHANGED <<clientVars, sourceVars, audioVars, quizVars, videoVars, trimVars>>

\* calculateTestScore: the reduce over userAnswers, up to index k
RECURSIVE ScoreUpTo(_, _, _)
ScoreUpTo(answers, questions, k) ==
  IF k = 0 THEN 0
  ELSE ScoreUpTo(answers, questions, k - 1)
         + (IF answers[k] = questions[k].answer THEN 1 ELSE 0)

calculateTestScore(answers, questions) == ScoreUpTo(answers, questions, Len(answers))

(***************************************************************************)
(* gemini.ts: trimSources.  A string is held by its length: a source by    *)
(* the lengths of its header line and of its content, a block of the       *)
(* result by the source it comes from and the lengths of its header and of *)
(* the text kept under it.                                                 *)
(***************************************************************************)
DefaultLimit == 18000

\* one pass of the loop over the sources; stopped is set by the break
TrimStep(acc, srcs, k, limit) ==
  LET header == srcs[k].header
      remaining == Max(0, limit - acc.total - header)
      text == Min(srcs[k].content, remaining)
      block == header + 1 + text
  IN IF acc.stopped \/ remaining <= 0 THEN [acc EXCEPT !.stopped = TRUE]
     ELSE [total |-> acc.total + block,
           chunks |-> Append(acc.chunks,
                             [src |-> k, header |-> header, text |-> text]),
           stopped |-> FALSE]

\* the loop from source k on
RECURSIVE TrimFrom(_, _, _, _)
TrimFrom(acc, srcs, k, limit) ==
  IF k > Len(srcs) THEN acc
  ELSE CHOOSE r \in {TrimFrom(next, srcs, k + 1, limit) :
                       next \in {TrimStep(acc, srcs, k, limit)}} : TRUE

\* trimSources(sources, limit): the blocks it joins
trimSources(srcs, limit) ==
  TrimFrom([total |-> 0, chunks |-> <<>>, stopped |-> FALSE], srcs, 1, limit).chunks

\* the length of header, newline and text of block k
BlockLength(chunks, k) == chunks[k].header + 1 + chunks[k].text

\* the length of the blocks up to block k
RECURSIVE BlocksLength(_, _)
BlocksLength(chunks, k) ==
  IF k = 0 THEN 0 ELSE BlocksLength(chunks, k - 1) + BlockLength(chunks, k)

\* the length of chunks.join("\n\n")
JoinedLength(chunks) ==
  IF chunks = <<>> THEN 0
  ELSE BlocksLength(chunks, Len(chunks)) + 2 * (Len(chunks) - 1)

(***************************************************************************)
(* Sample texts and payloads.                                              *)
(***************************************************************************)
Options4 == JArr(<<JStr("3"), JStr("4"), JStr("5"), JStr("6")>>)

Question(answer) ==
  JObj([question |-> JStr("2+2?"), options |-> Options4, answer |-> answer])

QuestionNoAnswer == JObj([question |-> JStr("2+2?"), options |-> Options4])

QuizDoc(qs) == JObj([questions |-> JArr(qs)])

ProseText == MarkdownText(<< <<"H", "i">> >>)

QuizJsonText ==
  JsonText(TRUE, FALSE, FALSE, QuizDoc(<<Question(JNum(1)), QuestionNoAnswer>>))

MarkdownQuizText ==
  MarkdownText(<< <<"1", ")", " ", "Q">>, <<"A", ")", " ", "x">>,
                  <<"B", ")", " ", "CHECK">>, <<"C", ")", " ", "y">>,
                  <<"D", ")", " ", "z">> >>)

\* a fenced quiz with a trailing comma, followed by the same kind of quiz
\* written as markdown lines
MixedQuizText ==
  Text("", TRUE, TRUE, TRUE, QuizDoc(<<Question(JNum(1))>>), MarkdownQuizText.lines)

CardsDoc ==
  JObj([title |-> JStr("Deck"),
        cards |-> JArr(<<JObj([front |-> JStr("f"), back |-> JStr("b")])>>)])

CardsJsonText == JsonText(TRUE, FALSE, FALSE, CardsDoc)

\* a deck that also carries a questions array
CardsAndQuizText ==
  JsonText(FALSE, FALSE, FALSE,
           JObj([cards |-> JArr(<<JObj([front |-> JStr("f"), back |-> JStr("b")])>>),
                 questions |-> JArr(<<Question(JNum(2))>>)]))

SampleImage == JStr("<base64 image>")

SampleSlides ==
  [t |-> "slides", title |-> JStr("Deck"),
   slides |-> << [title |-> JStr("s"), bullets |-> <<JStr("b")>>,
                  image |-> SampleImage] >>]

SampleVideo ==
  [t |-> "video", title |-> JStr("Video"),
   scenes |-> << [text |-> JStr("n"), visual |-> JStr("v"),
                  image |-> SampleImage, audio |-> JNull] >>]

AudioProject(title, file) ==
  [t |-> "audio", title |-> title,
   audioUrl |-> [mime |-> "audio/wav", base64 |-> Base64(file)]]

SampleAudio == AudioProject(JStr("Podcast"), createWavHeader(2) \o <<1, 2>>)

\* route.ts, POST: the bodies the endpoint answers a request of a mode with
GenerateResponses(mode) ==
  {[error |-> Lit("GOOGLE_API_KEY missing")]}
  \cup
  CASE mode = "infographic" ->
         {[image |-> SampleImage, text |-> Lit("Infographic generated")]}
    [] mode = "audio" ->
         {[text |-> ProseText],
          [audioProject |-> SampleAudio, text |-> Lit("Podcast ready.")]}
    [] mode = "slides" ->
         {[text |-> ProseText], [text |-> MarkdownQuizText],
          [slides |-> SampleSlides, text |-> Lit("Slides ready.")]}
    [] mode = "video" ->
         {[text |-> ProseText],
          [video |-> SampleVideo, text |-> Lit("Video ready to watch.")]}
    [] mode = "quiz" ->
         {[text |-> ProseText], [text |-> QuizJsonText], [text |-> MarkdownQuizText]}
    [] mode = "flashcards" ->
         {[text |-> ProseText], [text |-> CardsJsonText], [text |-> CardsAndQuizText]}
    [] OTHER -> {[text |-> ProseText], [text |-> Lit("")]}

(***************************************************************************)
(* The page: its actions.                                                  *)
(***************************************************************************)
\* a click on a studio card
RunStudio ==
  /\ nextId <= MaxRequests
  /\ \E mode \in StudioCards : StartStudio(mode)
  /\ UNCHANGED <<audioVars, quizVars, sourceVars, videoVars, trimVars, jobVars>>

\* the endpoint answers a studio request
StudioResponse ==
  /\ \E req \in inflight :
       /\ req.kind = "studio"
       /\ \E data \in GenerateResponses(req.mode) : SettleStudio(req, data)
  /\ UNCHANGED <<audioVars, quizVars, sourceVars, videoVars, trimVars, jobVars>>

\* the fetch of a studio request rejects
StudioFailure ==
  /\ \E req \in inflight :
       /\ req.kind = "studio"
       /\ FailStudio(req, TransportError)
  /\ UNCHANGED <<audioVars, quizVars, sourceVars, videoVars, trimVars, jobVars>>


\* the send button, disabled while isChatLoading
SendButton ==
  /\ nextId <= MaxRequests
  /\ ~isChatLoading
  /\ sendMessage(Undefined)
  /\ UNCHANGED <<audioVars, quizVars, sourceVars, videoVars, trimVars, jobVars>>

\* the Enter key in the input
SendEnter ==
  /\ nextId <= MaxRequests
  /\ sendMessage(Undefined)
  /\ UNCHANGED <<audioVars, quizVars, sourceVars, videoVars, trimVars, jobVars>>

\* a suggested-prompt button
SendSuggested ==
  /\ nextId <= MaxRequests
  /\ \E sgt \in Suggested : sendMessage(JChars(sgt))
  /\ UNCHANGED <<audioVars, quizVars, sourceVars, videoVars, trimVars, jobVars>>

ChatResponse ==
  /\ \E req \in inflight :
       /\ req.kind = "chat"
       /\ \E data \in GenerateResponses("chat") : SettleChat(req, ChatReply(data))
  /\ UNCHANGED <<audioVars, quizVars, sourceVars, videoVars, trimVars, jobVars>>

ChatFailure ==
  /\ \E req \in inflight :
       /\ req.kind = "chat"
       /\ SettleChat(req, TransportError)
  /\ UNCHANGED <<audioVars, quizVars, sourceVars, videoVars, trimVars, jobVars>>


(***************************************************************************)
(* Initial states.                                                         *)
(***************************************************************************)
Greeting == Lit("Hello! I am Miraverse.")

ClientInit ==
  /\ messages = << [role |-> "assistant", content |-> Greeting] >>
  /\ isChatLoading = FALSE
  /\ studioLoading = "null"
  /\ studioResults = <<>>
  /\ modal = NoModal
  /\ inflight = {}
  /\ nextId = 1
  /\ input = <<>>
  /\ sources = <<>>
  /\ selectedSources = <<>>
  /\ activeTab = "null"

NoResponse == [status |-> 0, body |-> [none |-> Undefined]]

AudioIdle ==
  /\ audioPc = "idle"
  /\ scriptData = Undefined
  /\ dialogue = <<>>
  /\ i = 0
  /\ allPcmChunks = <<>>
  /\ totalCombinedPcmLength = 0
  /\ finalWavFile = <<>>
  /\ response = NoResponse
  /\ ttsChunks = <<>>
  /\ ttsResults = <<>>

QuizIdle ==
  /\ quizRaw = Lit("")
  /\ quizParsed = Undefined

VideoIdle ==
  /\ videoPc = "idle"
  /\ videoTitle = Undefined
  /\ videoScenes = <<>>
  /\ videoMedia = <<>>
  /\ videoResponse = NoResponse

NotTrimmed == [t |-> "none"]

TrimIdle ==
  /\ trimArg = <<>>
  /\ trimResult = NotTrimmed

JobIdle ==
  /\ jobStep = "input"
  /\ isLoading = FALSE
  /\ testQuestions = <<>>
  /\ userAnswers = <<>>
  /\ showTestResults = FALSE
  /\ jobPending = {}

(***************************************************************************)
(* Spec: the page against the endpoint's answers.                          *)
(***************************************************************************)
Init == ClientInit /\ AudioIdle /\ apiKey = TRUE /\ QuizIdle /\ VideoIdle /\ TrimIdle /\ JobIdle

Next ==
  \/ RunStudio \/ StudioResponse \/ StudioFailure
  \/ TypeInput \/ SendButton \/ SendEnter \/ SendSuggested
  \/ ChatResponse \/ ChatFailure
  \/ OpenResult \/ CloseModal \/ QuizSelect \/ QuizPrev \/ QuizNext

Spec == Init /\ [][Next]_vars

(***************************************************************************)
(* SpecSources: the page with its sources panel, the chat and the studio   *)
(* cards; the modal stays closed.                                          *)
(***************************************************************************)
NextSources ==
  \/ ToggleFileTab \/ PickFiles \/ UploadResponse \/ ToggleSource
  \/ RunStudio \/ StudioResponse \/ StudioFailure
  \/ TypeInput \/ SendButton \/ SendEnter \/ SendSuggested
  \/ ChatResponse \/ ChatFailure

SpecSources == Init /\ [][NextSources]_vars

(***************************************************************************)
(* SpecChat: the chat alone.                                               *)
(***************************************************************************)
NextChat ==
  \/ TypeInput \/ SendButton \/ SendEnter \/ SendSuggested
  \/ ChatResponse \/ ChatFailure

SpecChat == Init /\ [][NextChat]_vars

(***************************************************************************)
(* SpecJob: the JobPrepView component.                                     *)
(***************************************************************************)
NextJob ==
  \/ CreatePlan \/ PlanResponse \/ JobNavigate
  \/ StartTest \/ TestResponse \/ TestFailure
  \/ ClickOption \/ SubmitAnswers

SpecJob == Init /\ [][NextJob]_vars

(***************************************************************************)
(* SpecStudio: the studio cards alone.  The promise of the fetch of every   *)
(* request settles, and the event loop then runs the rest of runStudio.    *)
(***************************************************************************)
\* the fetch of request id resolves or rejects, and runStudio goes on
StudioSettles(id) ==
  /\ \E req \in inflight :
       /\ req.kind = "studio" /\ req.id = id
       /\ \/ \E data \in GenerateResponses(req.mode) : SettleStudio(req, data)
          \/ FailStudio(req, TransportError)
  /\ UNCHANGED <<audioVars, quizVars, sourceVars, videoVars, trimVars, jobVars>>

NextStudio == RunStudio \/ StudioResponse \/ StudioFailure

SpecStudio ==
  /\ Init /\ [][NextStudio]_vars
  /\ \A id \in 1..MaxRequests : WF_vars(StudioSettles(id))

(***************************************************************************)
(* SpecAudio: one studio request of mode audio, from the click through the *)
(* endpoint's chunk loop to the artifact.                                  *)
(***************************************************************************)
\* the click on the podcast card; the request reaches the endpoint
AudioFetch ==
  /\ audioPc = "idle"
  /\ StartStudio("audio")
  /\ audioPc' = "script"
  /\ UNCHANGED <<apiKey, scriptData, dialogue, i, allPcmChunks,
                 totalCombinedPcmLength, finalWavFile, response, ttsChunks,
                 ttsResults>>
  /\ UNCHANGED <<quizVars, sourceVars, videoVars, trimVars, jobVars>>

\* the endpoint's answer reaches runStudio
AudioDeliver ==
  /\ audioPc = "done"
  /\ \E req \in inflight : SettleStudio(req, response.body)
  /\ audioPc' = "delivered"
  /\ UNCHANGED <<apiKey, scriptData, dialogue, i, allPcmChunks,
                 totalCombinedPcmLength, finalWavFile, response, ttsChunks,
                 ttsResults>>
  /\ UNCHANGED <<quizVars, sourceVars, videoVars, trimVars, jobVars>>

InitAudio ==
  ClientInit /\ AudioIdle /\ apiKey \in BOOLEAN /\ QuizIdle /\ VideoIdle /\ TrimIdle /\ JobIdle

NextAudio ==
  \/ AudioFetch \/ AudioScript \/ AudioChunk \/ AudioStitch \/ AudioDeliver

SpecAudio == InitAudio /\ [][NextAudio]_vars

(***************************************************************************)
(* SpecQuiz: extractQuiz applied to one text.                              *)
(***************************************************************************)
AnswerFields ==
  {JNull, JNum(0), JNum(1), JNum(3), JNum(4), JNum(7), JNum(-1), JStr("2"),
   JStr("B"), JStr(""), JBool(TRUE)}

\* the entries a questions array is made of
QuestionEntries ==
  {Question(a) : a \in AnswerFields}
  \cup {QuestionNoAnswer,
        JObj([question |-> JStr("q"),
              options |-> JArr(<<JStr("3"), JStr("4"), JStr("5")>>),
              answer |-> JNum(1)]),
        JObj([question |-> JStr("q"),
              options |-> JArr(<<JStr("3"), JNum(4), JStr("5"), JStr("6")>>),
              answer |-> JNum(1)]),
        JObj([question |-> JNum(5), options |-> Options4, answer |-> JNum(1)]),
        JObj([question |-> JStr("q"), answer |-> JNum(1)]),
        JNull}

RECURSIVE SeqsOfLen(_, _)
SeqsOfLen(S, n) ==
  IF n = 0 THEN {<<>>}
  ELSE {Append(s, x) : s \in SeqsOfLen(S, n - 1), x \in S}

\* the JSON texts with at most maxQuestions entries
JsonQuizInputs(maxQuestions) ==
  {JsonText(f, p, n, QuizDoc(qs)) :
     f \in BOOLEAN, p \in BOOLEAN, n \in BOOLEAN,
     qs \in UNION {SeqsOfLen(QuestionEntries, len) : len \in 0..maxQuestions}}
  \cup {JsonText(FALSE, FALSE, FALSE, JObj([title |-> JStr("no questions")])),
        JsonText(FALSE, FALSE, FALSE, JNull)}

SampleLines ==
  { <<"1", ")", " ", "Q">>,
    <<"*", "*", "2", ".", "*", "*", " ", "R", " ">>,
    <<"A", ")", " ", "x">>,
    <<"-", " ", "CYR_VE", ".", "C", "o", "r", "r", "e", "c", "t">>,
    <<"E", ")", " ", "z">> }

\* the markdown texts of at most maxLines lines
MarkdownQuizInputs(maxLines) ==
  {MarkdownText(ls) :
     ls \in UNION {SeqsOfLen(SampleLines, len) : len \in 0..maxLines}}

QuizInputs(maxQuestions, maxLines) ==
  JsonQuizInputs(maxQuestions) \cup MarkdownQuizInputs(maxLines)
  \cup {Lit("No answer"), ProseText, MarkdownQuizText, MixedQuizText}

NotExtracted == [t |-> "none"]

ExtractQuiz ==
  /\ quizParsed = NotExtracted
  /\ quizParsed' = [t |-> "parsed", quiz |-> extractQuiz(quizRaw).quiz,
                    message |-> extractQuiz(quizRaw).message]
  /\ UNCHANGED <<quizRaw, clientVars, audioVars, sourceVars, videoVars, trimVars, jobVars>>

InitQuiz ==
  /\ ClientInit /\ AudioIdle /\ apiKey = TRUE /\ VideoIdle /\ TrimIdle /\ JobIdle
  /\ quizRaw \in QuizInputs(MaxQuestions, MaxLines)
  /\ quizParsed = NotExtracted

NextQuiz == ExtractQuiz

SpecQuiz == InitQuiz /\ [][NextQuiz]_vars

(***************************************************************************)
(* SpecParse: parseInfographic, parseSlides and parseFlashcards applied to *)
(* one text.                                                               *)
(***************************************************************************)
\* the entries a blocks array is made of
BlockEntries ==
  {JObj([title |-> JStr("a"), content |-> JStr("b")]),
   JObj([title |-> JStr("c"), content |-> JStr("d"), icon |-> JStr("i")]),
   JObj([title |-> JStr("a")]),
   JObj([title |-> JStr("a"), content |-> JNum(1)]),
   JNull}

\* the entries a slides array is made of
SlideEntries ==
  {JObj([title |-> JStr("a"), bullets |-> JArr(<<JStr("b"), JStr("c")>>)]),
   JObj([title |-> JStr("d"), bullets |-> JArr(<<JNum(1), JStr("e")>>)]),
   JObj([title |-> JStr("a"), bullets |-> JArr(<<JNum(1)>>)]),
   JObj([title |-> JStr("a"), bullets |-> JArr(<<>>)]),
   JObj([title |-> JStr("a"), bullets |-> JStr("b")]),
   JObj([bullets |-> JArr(<<JStr("b")>>)]),
   JNull}

\* the entries a cards array is made of
CardEntries ==
  {JObj([front |-> JStr("f"), back |-> JStr("b")]),
   JObj([front |-> JStr("g"), back |-> JStr("c"), hint |-> JStr("h")]),
   JObj([front |-> JStr("f")]),
   JObj([front |-> JNum(1), back |-> JStr("b")]),
   JNull}

\* a document with the entries under the key, with or without a title
PayloadDoc(key, entries, title) ==
  LET body == (key :> JArr(entries)) IN
  IF title = Undefined THEN JObj(body)
  ELSE JObj(body @@ ("title" :> title))

\* the documents with at most maxEntries of the entries under the key
PayloadTexts(key, S, maxEntries) ==
  {JsonText(f, FALSE, FALSE, PayloadDoc(key, entries, title)) :
     f \in BOOLEAN,
     title \in {Undefined, JStr("T"), JStr(""), JNum(5)},
     entries \in UNION {SeqsOfLen(S, len) : len \in 0..maxEntries}}

\* the texts handed to the parsers
PayloadInputs(maxEntries) ==
  PayloadTexts("blocks", BlockEntries, maxEntries)
  \cup PayloadTexts("slides", SlideEntries, maxEntries)
  \cup PayloadTexts("cards", CardEntries, maxEntries)
  \cup {JsonText(FALSE, TRUE, FALSE, CardsDoc), JsonText(FALSE, FALSE, TRUE, CardsDoc),
        JsonText(FALSE, FALSE, FALSE, JObj([title |-> JStr("T")])),
        ProseText}

ParsePayloads ==
  /\ quizParsed = NotExtracted
  /\ quizParsed' = [t |-> "payloads",
                    infographic |-> parseInfographic(quizRaw),
                    slides |-> parseSlides(quizRaw),
                    flashcards |-> parseFlashcards(quizRaw)]
  /\ UNCHANGED <<quizRaw, clientVars, audioVars, sourceVars, videoVars, trimVars, jobVars>>

InitParse ==
  /\ ClientInit /\ AudioIdle /\ apiKey = TRUE /\ VideoIdle /\ TrimIdle /\ JobIdle
  /\ quizRaw \in PayloadInputs(MaxEntries)
  /\ quizParsed = NotExtracted

NextParse == ParsePayloads

SpecParse == InitParse /\ [][NextParse]_vars

(***************************************************************************)
(* SpecTrim: trimSources applied to one list of sources, with the limit it *)
(* is called with.                                                         *)
(***************************************************************************)
\* the lengths of header lines: the shortest one ("# ", an empty title and
\* " (file)") and a longer one
HeaderLengths == {9, 30}

\* the lengths of contents: empty, short, and around what is left of the
\* limit after one header or after a first short block
ContentLengths == {0, 5, 17944, 17970, 17991, 20000}

SourceShapes ==
  {[header |-> h, content |-> c] : h \in HeaderLengths, c \in ContentLengths}

\* the lists of at most maxSources sources
TrimInputs(maxSources) == SeqsUpTo(SourceShapes, maxSources)

TrimSources ==
  /\ trimResult = NotTrimmed
  /\ trimResult' = [t |-> "trimmed", chunks |-> trimSources(trimArg, DefaultLimit)]
  /\ UNCHANGED <<trimArg, clientVars, sourceVars, audioVars, quizVars, videoVars,
                 jobVars>>

InitTrim ==
  /\ ClientInit /\ AudioIdle /\ apiKey = TRUE /\ QuizIdle /\ VideoIdle /\ JobIdle
  /\ trimArg \in TrimInputs(MaxSources)
  /\ trimResult = NotTrimmed

NextTrim == TrimSources

SpecTrim == InitTrim /\ [][NextTrim]_vars

(***************************************************************************)
(* SpecVideo: one POST /api/generate in mode video, from the script to the *)
(* response, with the image and audio requests of the scenes in flight     *)
(* together.                                                               *)
(***************************************************************************)
\* the entries a scenes array is made of: text and visual, a headline and
\* no text, neither headline nor text
SceneEntries ==
  {JObj([text |-> JStr("n"), visual |-> JStr("v")]),
   JObj([headline |-> JStr("h"), visual |-> JStr("w")]),
   JObj([visual |-> JStr("x")])}

\* what runGemini can return in mode video, with at most maxScenes scenes
VideoScriptTexts(maxScenes) ==
  {JsonText(f, pr, FALSE, JObj([title |-> JStr("T"), scenes |-> JArr(scs)])) :
     f \in BOOLEAN, pr \in BOOLEAN,
     scs \in UNION {SeqsOfLen(SceneEntries, len) : len \in 0..maxScenes}}
  \cup {JsonText(FALSE, FALSE, FALSE,
                 JObj([scenes |-> JArr(<<JObj([text |-> JStr("n"),
                                               visual |-> JStr("v")])>>)])),
        JsonText(FALSE, FALSE, FALSE, JObj([title |-> JStr("T")])),
        ProseText}

\* JSON.parse of the text from the first "{" to the last "}", or of the text
\* without its fences when it holds no such pair (texts without noise)
ParseVideoScript(raw) ==
  IF raw.json = NoJson THEN NoJson
  ELSE IF raw.json.t = "obj" \/ ~raw.prose THEN raw.json
  ELSE NoJson

\* scene.headline || scene.text.slice(0, 50) throws a TypeError when the
\* headline is falsy and the text is no string
SlideTextThrows(scene) ==
  \/ scene.t # "obj"
  \/ ~Truthy(Get(scene, "headline")) /\ Get(scene, "text").t # "str"

Pending == [t |-> "pending"]

\* how generateImage settles: it rejects, or resolves with the image
ImageOutcomes ==
  {[threw |-> TRUE, value |-> Undefined], [threw |-> FALSE, value |-> SampleImage]}

\* how generateSpeech settles: it rejects, or resolves with a buffer that
\* becomes a data URI
SpeechOutcomes ==
  {[threw |-> TRUE, value |-> Undefined],
   [threw |-> FALSE, value |-> JStr("data:audio/wav;base64,<wav>")]}

\* .then(value => ...).catch(e => null)
CaughtAsNull(outcome) == IF outcome.threw THEN JNull ELSE outcome.value

\* results.reduce((acc, curr) => ({ ...acc, ...curr }), { ...scene })
WithMedia(scene, media) ==
  [f \in DOMAIN scene.o \cup {"image", "audio"} |->
     IF f = "image" THEN CaughtAsNull(media.image)
     ELSE IF f = "audio" THEN CaughtAsNull(media.audio)
     ELSE scene.o[f]]

\* scriptData.title || <fixed title>
VideoTitle(data) ==
  IF Truthy(Get(data, "title")) THEN Get(data, "title") ELSE JStr("Video")

\* the handler up to the first await inside Promise.all: the script, its
\* parse, and the map over the scenes, which starts the two requests of
\* every scene whose slide text can be built.  A callback that throws makes
\* Promise.all reject at once, and the catch of POST answers.
VideoStart ==
  /\ videoPc = "idle"
  /\ \/ /\ ~apiKey
        /\ videoResponse' = [status |-> 500,
                             body |-> [error |-> Lit("GOOGLE_API_KEY missing")]]
        /\ videoPc' = "done"
        /\ UNCHANGED <<videoTitle, videoScenes, videoMedia>>
     \/ /\ apiKey
        /\ videoResponse' = [status |-> 500, body |-> [error |-> Lit("upstream")]]
        /\ videoPc' = "done"
        /\ UNCHANGED <<videoTitle, videoScenes, videoMedia>>
     \/ /\ apiKey
        /\ \E scriptRaw \in VideoScriptTexts(MaxScenes) :
             LET scriptData_ == ParseVideoScript(scriptRaw) IN
             IF scriptData_ = NoJson \/ Get(scriptData_, "scenes").t # "arr"
               THEN /\ videoResponse' = [status |-> 200, body |-> [text |-> scriptRaw]]
                    /\ videoPc' = "done"
                    /\ UNCHANGED <<videoTitle, videoScenes, videoMedia>>
               ELSE LET scenes == Get(scriptData_, "scenes").a IN
                    /\ videoTitle' = VideoTitle(scriptData_)
                    /\ videoScenes' = scenes
                    /\ videoMedia' =
                         [k \in 1..Len(scenes) |->
                            IF SlideTextThrows(scenes[k])
                              THEN [image |-> Undefined, audio |-> Undefined]
                              ELSE [image |-> Pending, audio |-> Pending]]
                    /\ IF \E k \in 1..Len(scenes) : SlideTextThrows(scenes[k])
                         THEN /\ videoResponse' =
                                   [status |-> 500,
                                    body |-> [error |-> Lit("TypeError")]]
                              /\ videoPc' = "done"
                         ELSE /\ videoPc' = "media"
                              /\ UNCHANGED videoResponse
  /\ UNCHANGED <<clientVars, audioVars, quizVars, sourceVars, trimVars, jobVars>>

\* the image request of a scene settles
VideoImage ==
  /\ \E k \in 1..Len(videoMedia) :
       /\ videoMedia[k].image = Pending
       /\ \E outcome \in ImageOutcomes :
            videoMedia' = [videoMedia EXCEPT ![k].image = outcome]
  /\ UNCHANGED <<videoPc, videoTitle, videoScenes, videoResponse>>
  /\ UNCHANGED <<clientVars, audioVars, quizVars, sourceVars, trimVars, jobVars>>

\* the audio request of a scene settles
VideoAudio ==
  /\ \E k \in 1..Len(videoMedia) :
       /\ videoMedia[k].audio = Pending
       /\ \E outcome \in SpeechOutcomes :
            videoMedia' = [videoMedia EXCEPT ![k].audio = outcome]
  /\ UNCHANGED <<videoPc, videoTitle, videoScenes, videoResponse>>
  /\ UNCHANGED <<clientVars, audioVars, quizVars, sourceVars, trimVars, jobVars>>

\* Promise.all resolves: the response with the scenes and their media
VideoRespond ==
  /\ videoPc = "media"
  /\ \A k \in 1..Len(videoMedia) :
       videoMedia[k].image # Pending /\ videoMedia[k].audio # Pending
  /\ videoResponse' =
       [status |-> 200,
        body |-> [video |-> [t |-> "video", title |-> videoTitle,
                             scenes |-> [k \in 1..Len(videoScenes) |->
                                           WithMedia(videoScenes[k], videoMedia[k])]],
                  text |-> Lit("Video ready to watch.")]]
  /\ videoPc' = "done"
  /\ UNCHANGED <<videoTitle, videoScenes, videoMedia>>
  /\ UNCHANGED <<clientVars, audioVars, quizVars, sourceVars, trimVars, jobVars>>

InitVideo ==
  ClientInit /\ AudioIdle /\ apiKey \in BOOLEAN /\ QuizIdle /\ VideoIdle /\ TrimIdle /\ JobIdle

NextVideo == VideoStart \/ VideoImage \/ VideoAudio \/ VideoRespond

SpecVideo == InitVideo /\ [][NextVideo]_vars

(***************************************************************************)
(* Properties of the audio assembly (SpecAudio).                           *)
(***************************************************************************)
\* the endpoint has stitched the chunks and answered with an audio project
Stitched ==
  /\ audioPc \in {"done", "delivered"}
  /\ "audioProject" \in DOMAIN response.body

\* the sample bytes of the k-th call: what follows the header of its buffer
SamplesOf(k) ==
  IF ttsResults[k].threw THEN <<>>
  ELSE SubSeq(ttsResults[k].buffer, HeaderSize + 1, Len(ttsResults[k].buffer))

\* the sample bytes of all the calls, in the order of the calls
AllSamples == [k \in 1..Len(ttsResults) |-> SamplesOf(k)]

\* the number of chunks a dialogue of n lines is split into
ChunkCount(n) == (n + CHUNK_SIZE - 1) \div CHUNK_SIZE

\* C1: when every chunk of the dialogue is synthesized, the data-length
\* field of the header of the returned WAV is the sum of the sample lengths
\* of the chunks, and the file is 44 bytes longer than that sum.
C1_AllChunksSucceed ==
  (Stitched /\ \A k \in 1..Len(ttsResults) : ~ttsResults[k].threw)
  => /\ ReadU32LE(finalWavFile, 40) = SumLen(AllSamples)
     /\ Len(finalWavFile) = 44 + SumLen(AllSamples)
     /\ response.body.audioProject.audioUrl.base64 = Base64(finalWavFile)

\* three chunks, all synthesized, five sample bytes in all, delivered
C1_Witness ==
  /\ audioPc = "delivered"
  /\ Len(ttsResults) = 3
  /\ \A k \in 1..Len(ttsResults) : ~ttsResults[k].threw
  /\ SumLen(AllSamples) = 5
  /\ Len(finalWavFile) = 49

\* C2: when the synthesis of a chunk fails, the loop goes on to the chunks
\* after it, the request is not failed, the sample body of the file is the
\* concatenation, in order, of the sample bytes of the other chunks, and the
\* data-length field is the length of that body.
C2_FailedChunkIsSkipped ==
  (\E k \in 1..Len(ttsResults) : ttsResults[k].threw)
  => /\ response.status # 500
     /\ audioPc \in {"loop", "done", "delivered"}
     /\ (audioPc = "loop" /\ Len(ttsResults) < ChunkCount(Len(dialogue)))
          => ENABLED AudioChunk
     /\ Stitched =>
          /\ Len(ttsResults) = ChunkCount(Len(dialogue))
          /\ SubSeq(finalWavFile, HeaderSize + 1, Len(finalWavFile))
               = Flatten(AllSamples)
          /\ ReadU32LE(finalWavFile, 40) = Len(Flatten(AllSamples))

\* the second of three chunks failed, the first and the third are in the
\* file, in that order
C2_Witness ==
  /\ audioPc = "delivered"
  /\ Len(ttsResults) = 3
  /\ ~ttsResults[1].threw /\ ttsResults[2].threw /\ ~ttsResults[3].threw
  /\ SamplesOf(1) = <<1, 2>>
  /\ SamplesOf(3) = <<2>>
  /\ SubSeq(finalWavFile, HeaderSize + 1, Len(finalWavFile)) = <<1, 2, 2>>

\* C3: the chunks handed to the speech service are consecutive runs of the
\* dialogue of at most CHUNK_SIZE lines: in order they make up the lines
\* consumed so far (the whole dialogue once the loop is over), none is empty,
\* only the last may be shorter than CHUNK_SIZE, and there is one call per
\* chunk.
C3_ChunkPartition ==
  /\ Flatten(ttsChunks) = SubSeq(dialogue, 1, Min(i, Len(dialogue)))
  /\ Len(ttsResults) = Len(ttsChunks)
  /\ \A k \in 1..Len(ttsChunks) :
       /\ Len(ttsChunks[k]) \in 1..CHUNK_SIZE
       /\ k < Len(ttsChunks) => Len(ttsChunks[k]) = CHUNK_SIZE
       /\ ttsChunks[k] = SubSeq(dialogue, (k - 1) * CHUNK_SIZE + 1,
                                Min(k * CHUNK_SIZE, Len(dialogue)))
  /\ Stitched => /\ Flatten(ttsChunks) = dialogue
                 /\ Len(ttsChunks) = ChunkCount(Len(dialogue))

\* a dialogue of 61 lines went out as chunks of 30, 30 and 1 lines
C3_Witness ==
  /\ Stitched
  /\ Len(dialogue) = 2 * CHUNK_SIZE + 1
  /\ Len(ttsChunks) = 3
  /\ Len(ttsChunks[3]) = 1

\* C4: when no chunk yields a sample byte (every call fails, or the dialogue
\* is empty), the artifact the page shows for the request is not a ready
\* podcast.
C4_NoSamplesIsAnError ==
  (audioPc = "delivered" /\ Stitched /\ totalCombinedPcmLength = 0)
  => \A k \in 1..Len(studioResults) :
       ~(studioResults[k].status = "ready"
         /\ studioResults[k].audioProject # Undefined)

RightAnswers ==
  {k \in 1..Len(testQuestions) : userAnswers[k] = testQuestions[k].answer}

\* C30: while the results are shown every question has an answer, there is
\* one answer for each question, and the score is the number of questions
\* answered right; and a step that leaves the results shown changes neither
\* the answers nor the questions nor the score.
C30_ResultsAreFinal ==
  /\ [](/\ Len(userAnswers) = Len(testQuestions)
        /\ showTestResults =>
             /\ ~IncludesUnanswered(userAnswers)
             /\ calculateTestScore(userAnswers, testQuestions)
                  = Cardinality(RightAnswers))
  /\ [][(showTestResults /\ showTestResults') =>
          /\ userAnswers' = userAnswers
          /\ testQuestions' = testQuestions
          /\ calculateTestScore(userAnswers', testQuestions')
               = calculateTestScore(userAnswers, testQuestions)]_vars

\* the results of a test of two questions, one of them answered right
C30_Witness ==
  /\ jobStep = "test"
  /\ showTestResults
  /\ Len(testQuestions) = 2
  /\ calculateTestScore(userAnswers, testQuestions) = 1

(***************************************************************************)
(* Properties of trimSources (SpecTrim).                                   *)
(***************************************************************************)
Trimmed == trimResult.t = "trimmed"

\* C29: the string trimSources returns, with its headers, newlines and
\* separators, is never longer than the limit.
C29_WithinLimit ==
  Trimmed => JoinedLength(trimResult.chunks) <= DefaultLimit

\* the blocks come from a prefix of the sources, one block for each, in the
\* order of the list, and every block holds a prefix of its content
C29_PrefixInOrder ==
  Trimmed =>
    /\ Len(trimResult.chunks) <= Len(trimArg)
    /\ \A k \in 1..Len(trimResult.chunks) :
         /\ trimResult.chunks[k].src = k
         /\ trimResult.chunks[k].header = trimArg[k].header
         /\ trimResult.chunks[k].text <= trimArg[k].content

\* what the loop does keep: the blocks together exceed the limit by at most
\* the newline of the last block, and the separators come on top
C29_WithinLimitButNewlines ==
  Trimmed =>
    /\ BlocksLength(trimResult.chunks, Len(trimResult.chunks)) <= DefaultLimit + 1
    /\ JoinedLength(trimResult.chunks)
         <= DefaultLimit + 1 + 2 * (Len(trimResult.chunks) - 1)

\* one source whose content fills what the header leaves of the limit
C29_OverByOne ==
  /\ Trimmed
  /\ Len(trimArg) = 1
  /\ JoinedLength(trimResult.chunks) = DefaultLimit + 1

(***************************************************************************)
(* Properties of the video branch (SpecVideo).                             *)
(***************************************************************************)
\* the requests of the scenes that have not settled
Unsettled ==
  {<<k, f>> \in (1..Len(videoMedia)) \X {"image", "audio"} :
     videoMedia[k][f] = Pending}

\* the scenes of the response are the scenes of the script, one for one and
\* in order, each with its own fields, and with null in exactly the media
\* fields whose request failed
ScenesIntact ==
  LET returned == videoResponse.body.video.scenes IN
  /\ Len(returned) = Len(videoScenes)
  /\ \A k \in 1..Len(returned) :
       /\ \A f \in DOMAIN videoScenes[k].o : returned[k][f] = videoScenes[k].o[f]
       /\ \A f \in {"image", "audio"} :
            /\ videoMedia[k][f].threw <=> returned[k][f] = JNull
            /\ ~videoMedia[k][f].threw => returned[k][f] = videoMedia[k][f].value

\* C14: once the endpoint has answered, no image or audio request of a
\* scene is still unsettled; and a response that carries scenes carries the
\* script's scenes in count and order, a failed request showing as null in
\* its own field of its own scene only.
C14_AnswerAfterAllSettled ==
  videoResponse # NoResponse =>
    /\ Unsettled = {}
    /\ "video" \in DOMAIN videoResponse.body => ScenesIntact

\* the same for scripts whose every scene has a headline or a string text
C14_WellFormedScenes ==
  (/\ videoResponse # NoResponse
   /\ \A k \in 1..Len(videoScenes) : ~SlideTextThrows(videoScenes[k]))
    => /\ Unsettled = {}
       /\ "video" \in DOMAIN videoResponse.body => ScenesIntact

\* two scenes answered, the image of the first and the audio of the second
\* failed
C14_PartialFailure ==
  /\ "video" \in DOMAIN videoResponse.body
  /\ Len(videoScenes) = 2
  /\ videoMedia[1].image.threw /\ ~videoMedia[1].audio.threw
  /\ ~videoMedia[2].image.threw /\ videoMedia[2].audio.threw

(***************************************************************************)
(* Properties of the page (Spec).                                          *)
(***************************************************************************)
\* the ids of the records of a list of results
Ids(results) == {results[k].id : k \in 1..Len(results)}

\* the record of the list that has the id
ItemOf(results, id) ==
  results[CHOOSE k \in 1..Len(results) : results[k].id = id]

Terminal == {"ready", "error"}

\* the studio requests that end in the step
Ended == {req \in inflight \ inflight' : req.kind = "studio"}

\* C5: in every step, a record that is new has status loading; a record
\* stays in the list; a record that is ready or error keeps its status and
\* its content; a loading record changes status only in the step that ends
\* its own request, and that step makes it ready or error.
C5_ArtifactLifecycle ==
  [][/\ \A id \in Ids(studioResults') \ Ids(studioResults) :
          ItemOf(studioResults', id).status = "loading"
     /\ \A id \in Ids(studioResults) :
          /\ id \in Ids(studioResults')
          /\ ItemOf(studioResults, id).status \in Terminal
               => /\ ItemOf(studioResults', id).status
                       = ItemOf(studioResults, id).status
                  /\ ItemOf(studioResults', id).content
                       = ItemOf(studioResults, id).content
          /\ ItemOf(studioResults, id).status = "loading"
               => \/ ItemOf(studioResults', id) = ItemOf(studioResults, id)
                  \/ \E req \in Ended : req.id = id
     /\ \A req \in Ended :
          /\ ItemOf(studioResults, req.id).status = "loading"
          /\ ItemOf(studioResults', req.id).status \in Terminal]_vars

\* two artifacts, the first one ready and the later one failed, and the
\* ready one opened
C5_Witness ==
  /\ Len(studioResults) = 2
  /\ studioResults[1].status = "error"
  /\ studioResults[2].status = "ready"
  /\ inflight = {}
  /\ modal.open
  /\ modal.title = studioResults[2].title

PayloadFields ==
  {"quiz", "infographic", "slides", "flashcards", "video", "audioProject",
   "image"}

\* the typed payloads a record carries
PayloadsOf(item) == {f \in PayloadFields : item[f] # Undefined}

\* C6: every record of studioResults carries at most one typed payload.
C6_AtMostOnePayload ==
  \A k \in 1..Len(studioResults) : Cardinality(PayloadsOf(studioResults[k])) <= 1

\* a deck made from a text that also holds a questions array, next to a quiz
C6_Witness ==
  /\ Len(studioResults) = 2
  /\ studioResults[1].mode = "flashcards"
  /\ studioResults[1].content = CardsReadyMessage
  /\ PayloadsOf(studioResults[1]) = {"flashcards"}
  /\ extractQuiz(CardsAndQuizText).quiz # Undefined
  /\ PayloadsOf(studioResults[2]) = {"quiz"}

\* C7: a select on the current question leaves every other question as it
\* was, and leaves the current one as it was when it has a userAnswer; it
\* sets the userAnswer of a question that has none.
C7_AnswerLocks ==
  [][QuizSelect =>
       /\ Len(modal'.quiz.qs) = Len(modal.quiz.qs)
       /\ \A k \in 1..Len(modal.quiz.qs) :
            /\ k # currentIndex + 1 => modal'.quiz.qs[k] = modal.quiz.qs[k]
            /\ modal.quiz.qs[k].userAnswer # Undefined
                 => modal'.quiz.qs[k] = modal.quiz.qs[k]
       /\ modal.quiz.qs[currentIndex + 1].userAnswer = Undefined
            => modal'.quiz.qs[currentIndex + 1].userAnswer.t = "num"]_vars

\* the first of two questions is answered and shown, the second is not
\* answered
C7_Witness ==
  /\ QuizShown
  /\ Len(modal.quiz.qs) = 2
  /\ currentIndex = 0
  /\ modal.quiz.qs[1].userAnswer = JNum(3)
  /\ modal.quiz.qs[2].userAnswer = Undefined

\* the quiz has no answered question
Unanswered(quiz) == \A q \in 1..Len(quiz.qs) : quiz.qs[q].userAnswer = Undefined

\* C28: opening a record, closing the modal, and the select, back and next
\* buttons of the quiz leave studioResults as it is; the quiz of a stored
\* record never has an answered question; and the quiz that the modal
\* holds right after a record was opened has no answered question.
C28_OpenLeavesRecords ==
  [][/\ (OpenResult \/ CloseModal \/ QuizSelect \/ QuizPrev \/ QuizNext)
          => studioResults' = studioResults
     /\ \A k \in 1..Len(studioResults') :
          Truthy(studioResults'[k].quiz) => Unanswered(studioResults'[k].quiz)
     /\ (OpenResult /\ modal'.quiz.t = "quiz") => Unanswered(modal'.quiz)]_vars

\* the modal holds an answered question of a quiz whose stored record has
\* no answer
C28_Witness ==
  /\ modal.open
  /\ modal.quiz.t = "quiz"
  /\ modal.quiz.qs[1].userAnswer # Undefined
  /\ \E k \in 1..Len(studioResults) :
       /\ Truthy(studioResults[k].quiz)
       /\ Unanswered(studioResults[k].quiz)
       /\ studioResults[k].quiz.qs[1].question = modal.quiz.qs[1].question

\* C10: no step adds a record of mode m to studioResults while studioLoading
\* is m, and no step adds a user message while isChatLoading.
C10_NoSecondCall ==
  [][/\ Len(studioResults') > Len(studioResults)
          => studioResults'[1].mode # studioLoading
     /\ (Len(messages') > Len(messages)
         /\ messages'[Len(messages')].role = "user")
          => ~isChatLoading]_vars

\* C11: a step that ends a studio request keeps the list as long as it was
\* and leaves every record but the one with the request's id as it was, at
\* its place, whatever other requests are in flight.
C11_OnlyOwnRecordChanges ==
  [][\A req \in Ended :
       /\ Len(studioResults') = Len(studioResults)
       /\ \A k \in 1..Len(studioResults) :
            studioResults[k].id # req.id => studioResults'[k] = studioResults[k]]_vars

\* two requests were in flight; the older one has ended and the newer one
\* is still loading
C11_Witness ==
  /\ Len(studioResults) = 2
  /\ studioResults[1].status = "loading"
  /\ studioResults[2].status \in Terminal
  /\ \E req \in inflight : req.kind = "studio" /\ req.id = studioResults[1].id

\* the bodies the endpoint's catch answers with
ErrorBodies(mode) == {data \in GenerateResponses(mode) : "error" \in DOMAIN data}

\* the text is a string with at least one character
Visible(text) == text.t = "text" /\ text # Lit("")

\* C13: a generation failure ends as a visible text.  When the endpoint
\* answers a studio request with {error}, the request's record gets that
\* error text as content; when the fetch of a studio request rejects, the
\* record gets status error and a non-empty content; when a chat request is
\* answered with {error} or its fetch rejects, a message with that error text
\* (non-empty) is appended to the chat.
C13_FailureIsVisible ==
  [][/\ \A req \in inflight :
          /\ req.kind = "studio" =>
                /\ \A data \in ErrorBodies(req.mode) :
                     SettleStudio(req, data) =>
                       /\ Visible(data.error)
                       /\ ItemOf(studioResults', req.id).content = data.error
                /\ FailStudio(req, TransportError) =>
                     /\ ItemOf(studioResults', req.id).status = "error"
                     /\ Visible(ItemOf(studioResults', req.id).content)
          /\ req.kind = "chat" =>
                /\ \A data \in ErrorBodies("chat") :
                     SettleChat(req, ChatReply(data)) =>
                       /\ Visible(data.error)
                       /\ messages'[Len(messages')].content = data.error
                /\ SettleChat(req, TransportError) =>
                     Visible(messages'[Len(messages')].content)
     /\ (StudioFailure \/ ChatFailure) =>
          \E req \in inflight \ inflight' :
            \/ Visible(messages'[Len(messages')].content) /\ req.kind = "chat"
            \/ /\ req.kind = "studio"
               /\ Visible(ItemOf(studioResults', req.id).content)]_vars

\* a quiz request answered with {error} and a chat request whose fetch
\* rejected
C13_Witness ==
  /\ Len(studioResults) = 1
  /\ studioResults[1].mode = "quiz"
  /\ studioResults[1].content \in {data.error : data \in ErrorBodies("quiz")}
  /\ Len(messages) = 3
  /\ messages[3] = [role |-> "assistant", content |-> TransportError]

\* the modes whose answer runStudio hands to a parser
ParserModes == {"quiz", "infographic", "slides", "flashcards"}

\* the answer has a text, and the parser of the mode gets no payload from it
NoPayloadParsed(mode, data) ==
  /\ mode \in ParserModes
  /\ "text" \in DOMAIN data
  /\ CASE mode = "quiz" -> extractQuiz(data.text).quiz = Undefined
       [] mode = "infographic" ->
            ~Truthy(Field(data, "image")) /\ parseInfographic(data.text) = JNull
       [] mode = "slides" ->
            ~Truthy(Field(data, "slides")) /\ parseSlides(data.text) = JNull
       [] mode = "flashcards" -> parseFlashcards(data.text) = JNull

\* the modal body renders the content as text: no payload cell is set
TextShown(m) ==
  /\ m.quiz = JNull /\ m.infographic = JNull /\ m.slides = JNull
  /\ m.flashcards = JNull /\ m.video = JNull /\ m.audio = JNull
  /\ m.image = JNull

\* the record ends ready, without a typed payload, with the text as content
TextKept(item, data) ==
  /\ item.status = "ready"
  /\ PayloadsOf(item) = {}
  /\ item.content = data.text

\* C20: when the endpoint's answer ends a request of a parser mode and the
\* parser gets no payload from the text, the record ends ready, carries no
\* typed payload and has the text as its content, and opening the record
\* sets the modal to show that text.
C20_MalformedOutputShownAsText ==
  [][\A req \in Ended : \A data \in GenerateResponses(req.mode) :
       (SettleStudio(req, data) /\ NoPayloadParsed(req.mode, data))
         => /\ TextKept(ItemOf(studioResults', req.id), data)
            /\ TextShown(OpenedModal(ItemOf(studioResults', req.id)))
            /\ OpenedModal(ItemOf(studioResults', req.id)).content = data.text]_vars

\* the part of C20 that is about the record alone
C20_RecordKeepsText ==
  [][\A req \in Ended : \A data \in GenerateResponses(req.mode) :
       (SettleStudio(req, data) /\ NoPayloadParsed(req.mode, data))
         => TextKept(ItemOf(studioResults', req.id), data)]_vars

(***************************************************************************)
(* Properties of the studio cards (SpecStudio).                            *)
(***************************************************************************)
\* the record of request id is in the list with status loading
Loading(id) ==
  id \in Ids(studioResults) /\ ItemOf(studioResults, id).status = "loading"

\* the record of request id is in the list with status ready or error
Settled(id) ==
  id \in Ids(studioResults) /\ ItemOf(studioResults, id).status \in Terminal

\* C23: the step that ends a studio request, by its response or by a
\* rejected fetch, leaves the record of that request in status ready or
\* error and studioLoading at null; and every record that is in status
\* loading is in status ready or error at some later time.
C23_LeavesLoading ==
  /\ [][\A req \in Ended :
          /\ ItemOf(studioResults', req.id).status \in Terminal
          /\ studioLoading' = "null"]_vars
  /\ \A id \in 1..MaxRequests : Loading(id) ~> Settled(id)

\* two requests have ended, one by a rejected fetch and one by a response
C23_Witness ==
  /\ inflight = {}
  /\ studioLoading = "null"
  /\ Len(studioResults) = 2
  /\ studioResults[1].status = "error"
  /\ studioResults[1].content = TransportError
  /\ studioResults[2].status = "ready"

\* C24: when the endpoint answers a studio request with an error body, the
\* record of that request ends in status error.
C24_ErrorBodyIsError ==
  [][\A req \in inflight :
       req.kind = "studio" =>
         \A data \in ErrorBodies(req.mode) :
           SettleStudio(req, data) =>
             ItemOf(studioResults', req.id).status = "error"]_vars

\* what runStudio does with an error body: the record ends in status ready
\* with the error text as its content
C24_ErrorBodyIsReady ==
  [][\A req \in inflight :
       req.kind = "studio" =>
         \A data \in ErrorBodies(req.mode) :
           SettleStudio(req, data) =>
             /\ ItemOf(studioResults', req.id).status = "ready"
             /\ ItemOf(studioResults', req.id).content = data.error]_vars

\* C25: while a record is in status loading, studioLoading is not null.
C25_TagCoversLoading ==
  (\E k \in 1..Len(studioResults) : studioResults[k].status = "loading")
    => studioLoading # "null"

(***************************************************************************)
(* Properties of the chat history (SpecSources).                           *)
(***************************************************************************)
\* C12: in every step the chat history before the step is a prefix of the
\* chat history after it: messages are appended, never removed, reordered
\* or rewritten.
C12_HistoryAppendOnly ==
  [][/\ Len(messages) <= Len(messages')
     /\ SubSeq(messages', 1, Len(messages)) = messages]_vars

\* a question, its reply and then the summary of an uploaded file
C12_Witness ==
  /\ Len(messages) = 4
  /\ messages[2].role = "user"
  /\ messages[3].role = "assistant"
  /\ messages[4] = [role |-> "assistant", content |-> SampleSummary]
  /\ Len(sources) = 2

\* the selection as a set of ids
SelectionOf(sel) == {sel[k] : k \in 1..Len(sel)}

\* C21: in every step the sources list before the step is a prefix of the
\* list after it; a click on a source leaves the list alone and adds the id
\* to the selection if it was absent, removes it if it was present; and two
\* clicks on the same source give the selection before them.
C21_SourcesAppendOnly ==
  [][/\ Len(sources) <= Len(sources')
     /\ SubSeq(sources', 1, Len(sources)) = sources
     /\ \A k \in 1..Len(sources) :
          LET id == sources[k].id
              before == SelectionOf(selectedSources)
              once == toggleSource(selectedSources, id)
              twice == toggleSource(once, id)
          IN /\ ClickSource(sources[k]) =>
                  /\ sources' = sources
                  /\ SelectionOf(selectedSources') =
                       IF id \in before THEN before \ {id} ELSE before \cup {id}
             /\ SelectionOf(twice) = before]_vars

\* two uploaded sources, the first of which was clicked twice
C21_Witness ==
  /\ Len(sources) = 2
  /\ selectedSources = <<sources[2].id, sources[1].id>>

(***************************************************************************)
(* Properties of the chat (SpecChat).                                      *)
(***************************************************************************)
\* the number of messages of a role
CountRole(msgs, role) == Cardinality({k \in 1..Len(msgs) : msgs[k].role = role})

\* the chat requests that have not settled
ChatPending == {req \in inflight : req.kind = "chat"}

\* C26: a send with an empty trimmed prompt changes neither the history nor
\* the requests; any other send appends one user message, the trimmed
\* prompt, and issues one request; the step that settles a chat request
\* ends that one request and appends one assistant message; so the
\* assistant messages after the greeting and the pending requests together
\* are as many as the user messages, and once no request is pending the
\* replies are as many as the user messages.
C26_OneReplyPerPrompt ==
  /\ [](CountRole(messages, "assistant") - 1 + Cardinality(ChatPending)
          = CountRole(messages, "user"))
  /\ [][/\ (SendButton \/ SendEnter \/ SendSuggested) =>
             /\ Len(messages') = Len(messages) + 1
             /\ SubSeq(messages', 1, Len(messages)) = messages
             /\ messages'[Len(messages')].role = "user"
             /\ messages'[Len(messages')].content.c # <<>>
             /\ messages'[Len(messages')].content.c
                  \in {Trim(input)} \cup {Trim(sgt) : sgt \in Suggested}
             /\ inflight \subseteq inflight'
             /\ Cardinality(inflight' \ inflight) = 1
        /\ (Trim(input) = <<>> /\ (SendButton \/ SendEnter)) =>
             (messages' = messages /\ inflight' = inflight)
        /\ (ChatResponse \/ ChatFailure) =>
             /\ Len(messages') = Len(messages) + 1
             /\ SubSeq(messages', 1, Len(messages)) = messages
             /\ messages'[Len(messages')].role = "assistant"
             /\ inflight' \subseteq inflight
             /\ Cardinality(inflight \ inflight') = 1]_vars

\* two prompts, the first answered by the endpoint and the second by a
\* rejected fetch, and nothing pending
C26_Witness ==
  /\ ChatPending = {}
  /\ Len(messages) = 5
  /\ messages[2].role = "user" /\ messages[3].role = "assistant"
  /\ messages[4].role = "user"
  /\ messages[5] = [role |-> "assistant", content |-> TransportError]

(***************************************************************************)
(* Properties of extractQuiz (SpecQuiz).                                   *)
(***************************************************************************)
Extracted == quizParsed.t = "parsed" /\ quizParsed.quiz # Undefined

\* C8: every question extractQuiz returns has four options and an answer
\* that is an integer of 0..3.
C8_FourOptionsAnswerInRange ==
  Extracted =>
    \A k \in 1..Len(quizParsed.quiz.qs) :
      /\ Len(quizParsed.quiz.qs[k].options) = 4
      /\ quizParsed.quiz.qs[k].answer.t = "num"
      /\ quizParsed.quiz.qs[k].answer.n \in 0..3

\* the valid entries of the questions array of a text that is a JSON
\* document as it stands
ValidEntries ==
  IF Candidate(quizRaw, TRUE) = NoJson
     \/ Get(Candidate(quizRaw, TRUE), "questions").t # "arr"
    THEN <<>>
    ELSE SelectSeq(Get(Candidate(quizRaw, TRUE), "questions").a, ValidQuestion)

\* the answer of an entry: 0 when the field is missing or has no numeric
\* value, and the numeric value otherwise
DefaultedAnswer(q) ==
  IF Get(q, "answer") = Undefined \/ NumberOf(Get(q, "answer")) = NaN
    THEN JNum(0)
    ELSE NumberOf(Get(q, "answer"))

\* C9: the answer of a question made from a valid entry is 0 when the
\* entry's answer field is missing or non-numeric, and the numeric value of
\* the field otherwise.
C9_AnswerDefaultsToZero ==
  (Extracted /\ ValidEntries # <<>>)
  => /\ Len(quizParsed.quiz.qs) = Len(ValidEntries)
     /\ \A k \in 1..Len(ValidEntries) :
          quizParsed.quiz.qs[k].answer = DefaultedAnswer(ValidEntries[k])

\* the JSON candidates of the text, in the order extractQuiz tries them
CandidatesInOrder ==
  <<Candidate(quizRaw, TRUE), Candidate(quizRaw, FALSE),
    QuestionsFragment(quizRaw, TRUE), QuestionsFragment(quizRaw, FALSE)>>

\* the candidate parses and holds at least one valid question
Yields(cand) == cand # NoJson /\ parseQuestionsArray(cand) # <<>>

\* C15: when some JSON candidate parses and yields a valid question, the
\* result is the ready message with the questions of the first such
\* candidate in the order: candidate, normalized candidate, questions
\* fragment, normalized questions fragment; the markdown lines of the text
\* play no part.
C15_FirstCandidateWins ==
  quizParsed.t = "parsed" =>
    \A c \in 1..Len(CandidatesInOrder) :
      (/\ Yields(CandidatesInOrder[c])
       /\ \A d \in 1..(c - 1) : ~Yields(CandidatesInOrder[d]))
        => /\ quizParsed.quiz = Quiz(parseQuestionsArray(CandidatesInOrder[c]))
           /\ quizParsed.message = QuizReadyMessage

\* a text whose candidate does not parse as it stands, whose normalized
\* candidate yields a quiz, and whose markdown lines hold another quiz
C15_Witness ==
  /\ Extracted
  /\ ~Yields(CandidatesInOrder[1])
  /\ Yields(CandidatesInOrder[2])
  /\ FallbackQuiz(quizRaw) # <<>>
  /\ FallbackQuiz(quizRaw) # quizParsed.quiz.qs

\* an entry in the format of the quiz prompt: a string question, an array of
\* string options, and an answer that is a number or is absent
WellFormedEntry(q) ==
  /\ q.t = "obj"
  /\ Get(q, "question").t = "str"
  /\ Get(q, "options").t = "arr"
  /\ \A o \in 1..Len(Get(q, "options").a) : Get(q, "options").a[o].t = "str"
  /\ Get(q, "answer").t \in {"undefined", "null", "num"}

\* the text is a JSON document without trailing commas, fenced or not,
\* whose questions array holds well-formed entries only
ValidQuizJson ==
  /\ quizRaw.json # NoJson
  /\ ~quizRaw.noise
  /\ Get(quizRaw.json, "questions").t = "arr"
  /\ \A e \in 1..Len(Get(quizRaw.json, "questions").a) :
       WellFormedEntry(Get(quizRaw.json, "questions").a[e])

\* the entries of the text that have exactly four options
FourOptionEntries ==
  SelectSeq(Get(quizRaw.json, "questions").a,
            LAMBDA q : Len(Get(q, "options").a) = 4)

\* C16: for a valid quiz JSON text with at least one entry of exactly four
\* string options, extractQuiz returns the four-option entries, all of them
\* and in their order, each with its question text, its four options and
\* its answer as a number, 0 when the entry has none.
C16_ValidJsonRoundTrip ==
  (quizParsed.t = "parsed" /\ ValidQuizJson /\ FourOptionEntries # <<>>)
    => /\ quizParsed.quiz.t = "quiz"
       /\ quizParsed.message = QuizReadyMessage
       /\ Len(quizParsed.quiz.qs) = Len(FourOptionEntries)
       /\ \A k \in 1..Len(FourOptionEntries) :
            /\ quizParsed.quiz.qs[k].question = Get(FourOptionEntries[k], "question")
            /\ quizParsed.quiz.qs[k].options = Get(FourOptionEntries[k], "options").a
            /\ quizParsed.quiz.qs[k].answer =
                 (IF Get(FourOptionEntries[k], "answer").t = "num"
                    THEN Get(FourOptionEntries[k], "answer") ELSE JNum(0))

\* a text with prose around the document: an entry with three options is
\* left out, the entry without an answer comes back with answer 0
C16_Witness ==
  /\ quizParsed.t = "parsed" /\ ValidQuizJson
  /\ quizRaw.prose
  /\ Len(Get(quizRaw.json, "questions").a) = 2
  /\ Len(FourOptionEntries) = 1
  /\ FourOptionEntries[1] = QuestionNoAnswer
  /\ quizParsed.quiz.qs[1].answer = JNum(0)

\* the line is a numbered question line
IsQuestionLine(line) == questionRegex(CleanLine(line)).matched

\* the line is a lettered option line
IsOptionLine(line) ==
  ~IsQuestionLine(line) /\ optionRegex(CleanLine(line)).matched

\* the text of the option line holds a correct-answer marker
Marked(line) == isCorrect(Trim(optionRegex(CleanLine(line)).group))

\* the text is one numbered question line followed by four lettered option
\* lines, at most one of them marked
OneMarkdownQuestion ==
  /\ quizRaw.json = NoJson
  /\ Len(quizRaw.lines) = 5
  /\ IsQuestionLine(quizRaw.lines[1])
  /\ \A k \in 2..5 : IsOptionLine(quizRaw.lines[k])
  /\ Cardinality({k \in 2..5 : Marked(quizRaw.lines[k])}) <= 1

\* C17: for a markdown text that is a numbered question line followed by
\* four lettered option lines, the fallback returns one question with the
\* four option texts; its answer is the position (from 0) of the one marked
\* option, and 0 when no option is marked.
C17_MarkedOptionIsAnswer ==
  (quizParsed.t = "parsed" /\ OneMarkdownQuestion)
    => /\ quizParsed.quiz.t = "quiz"
       /\ Len(quizParsed.quiz.qs) = 1
       /\ Len(quizParsed.quiz.qs[1].options) = 4
       /\ \A k \in 2..5 :
            Marked(quizRaw.lines[k]) => quizParsed.quiz.qs[1].answer = JNum(k - 2)
       /\ (\A k \in 2..5 : ~Marked(quizRaw.lines[k]))
            => quizParsed.quiz.qs[1].answer = JNum(0)

\* the last of the four options is the marked one
C17_Witness ==
  /\ quizParsed.t = "parsed" /\ OneMarkdownQuestion
  /\ Marked(quizRaw.lines[5])
  /\ quizParsed.quiz.qs[1].answer = JNum(3)

\* the positions of the question lines of the text
QuestionLines == {k \in 1..Len(quizRaw.lines) : IsQuestionLine(quizRaw.lines[k])}

\* the option lines that follow question line k before the next question line
OptionsAfter(k) ==
  {j \in (k + 1)..Len(quizRaw.lines) :
     /\ IsOptionLine(quizRaw.lines[j])
     /\ \A q \in QuestionLines : ~(k < q /\ q < j)}

\* the position (from 0) of option line j among the option lines of question k
OptionRank(k, j) == Cardinality({o \in OptionsAfter(k) : o < j})

\* the first four of them
AcceptedOptions(k) == {j \in OptionsAfter(k) : OptionRank(k, j) < 4}

\* the question lines that have four option lines or more
KeptQuestions == {k \in QuestionLines : Cardinality(OptionsAfter(k)) >= 4}

\* the position (from 0) of the last marked one of the first four options,
\* 0 when none is marked
MarkedRank(k) ==
  LET marked == {OptionRank(k, j) : j \in {a \in AcceptedOptions(k) : Marked(quizRaw.lines[a])}}
  IN IF marked = {} THEN 0 ELSE CHOOSE r \in marked : \A r2 \in marked : r2 <= r

\* C22: for a text without JSON the fallback returns one question for each
\* question line that is followed, before the next question line, by four
\* option lines or more, in the order of the text; a question line with
\* fewer is left out, and so are option lines before the first question
\* line.  The question has the texts of the first four of its option lines,
\* and its answer is the position of the last marked one of those four (0
\* when none is marked): later option lines are neither stored nor counted.
C22_LineScan ==
  (quizParsed.t = "parsed" /\ quizRaw.json = NoJson) =>
    LET qs == IF quizParsed.quiz = Undefined THEN <<>> ELSE quizParsed.quiz.qs IN
    /\ Len(qs) = Cardinality(KeptQuestions)
    /\ \A k \in KeptQuestions :
         LET q == qs[1 + Cardinality({k2 \in KeptQuestions : k2 < k})] IN
         /\ q.question = JChars(Trim(questionRegex(CleanLine(quizRaw.lines[k])).group))
         /\ Len(q.options) = 4
         /\ \A j \in AcceptedOptions(k) :
              q.options[OptionRank(k, j) + 1] =
                JChars(Trim(optionRegex(CleanLine(quizRaw.lines[j])).group))
         /\ q.answer = JNum(MarkedRank(k))

\* a question line followed by five option lines, the fifth of them the only
\* marked one: one question with answer 0
C22_Witness ==
  /\ quizParsed.t = "parsed" /\ quizRaw.json = NoJson
  /\ Len(quizRaw.lines) = 6
  /\ QuestionLines = {1}
  /\ OptionsAfter(1) = 2..6
  /\ {j \in 2..6 : Marked(quizRaw.lines[j])} = {6}
  /\ Len(quizParsed.quiz.qs) = 1
  /\ Len(quizParsed.quiz.qs[1].options) = 4
  /\ quizParsed.quiz.qs[1].answer = JNum(0)

\* an option line before the first question line, and a question line with
\* one option line before the question that is kept
C22_WitnessDiscarded ==
  /\ quizParsed.t = "parsed" /\ quizRaw.json = NoJson
  /\ Len(quizRaw.lines) = 6
  /\ IsOptionLine(quizRaw.lines[1])
  /\ IsQuestionLine(quizRaw.lines[2])
  /\ quizParsed.quiz = Undefined

\* C18: what extractQuiz returns has one of two shapes: a list of at least
\* one question together with the ready message, or no list at all
\* together with the text it was given, unchanged.  It never returns an
\* empty list.
C18_TwoShapes ==
  quizParsed.t = "parsed" =>
    \/ /\ quizParsed.quiz.t = "quiz"
       /\ quizParsed.quiz.qs # <<>>
       /\ quizParsed.message = QuizReadyMessage
    \/ /\ quizParsed.quiz = Undefined
       /\ quizParsed.message = quizRaw

\* a JSON text whose questions array holds entries, none of them valid:
\* nothing is recovered and the text comes back
C18_Witness ==
  /\ quizParsed.t = "parsed"
  /\ quizParsed.quiz = Undefined
  /\ quizParsed.message = quizRaw
  /\ Get(quizRaw.json, "questions").t = "arr"
  /\ Len(Get(quizRaw.json, "questions").a) = 2

(***************************************************************************)
(* Properties of the payload parsers (SpecParse).                          *)
(***************************************************************************)
\* the text parses as it stands once its fences are gone
Parses == quizRaw.json # NoJson /\ ~quizRaw.prose /\ ~quizRaw.noise

\* the entries of the document under the key, <<>> when it has no such array
EntriesOf(key) ==
  IF Parses /\ Get(quizRaw.json, key).t = "arr" THEN Get(quizRaw.json, key).a
  ELSE <<>>

HasStringFields(e, fields) == \A f \in fields : Get(e, f).t = "str"

StringBullets(e) == SelectSeq(Get(e, "bullets").a, LAMBDA b : b.t = "str")

\* the entries that have every required field
KeptBlocks ==
  SelectSeq(EntriesOf("blocks"), LAMBDA e : HasStringFields(e, {"title", "content"}))
KeptSlides ==
  SelectSeq(EntriesOf("slides"),
            LAMBDA e : /\ HasStringFields(e, {"title"})
                       /\ Get(e, "bullets").t = "arr"
                       /\ StringBullets(e) # <<>>)
KeptCards ==
  SelectSeq(EntriesOf("cards"), LAMBDA e : HasStringFields(e, {"front", "back"}))

\* each parser returns null when no entry is kept, and otherwise the kept
\* entries, all of them and in their order
BlocksFiltered ==
  IF KeptBlocks = <<>> THEN quizParsed.infographic = JNull
  ELSE /\ quizParsed.infographic # JNull
       /\ Len(quizParsed.infographic.blocks) = Len(KeptBlocks)
       /\ \A k \in 1..Len(KeptBlocks) :
            /\ quizParsed.infographic.blocks[k].title = Get(KeptBlocks[k], "title")
            /\ quizParsed.infographic.blocks[k].content = Get(KeptBlocks[k], "content")
SlidesFiltered ==
  IF KeptSlides = <<>> THEN quizParsed.slides = JNull
  ELSE /\ quizParsed.slides # JNull
       /\ Len(quizParsed.slides.slides) = Len(KeptSlides)
       /\ \A k \in 1..Len(KeptSlides) :
            /\ quizParsed.slides.slides[k].title = Get(KeptSlides[k], "title")
            /\ quizParsed.slides.slides[k].bullets = StringBullets(KeptSlides[k])
CardsFiltered ==
  IF KeptCards = <<>> THEN quizParsed.flashcards = JNull
  ELSE /\ quizParsed.flashcards # JNull
       /\ Len(quizParsed.flashcards.cards) = Len(KeptCards)
       /\ \A k \in 1..Len(KeptCards) :
            /\ quizParsed.flashcards.cards[k].front = Get(KeptCards[k], "front")
            /\ quizParsed.flashcards.cards[k].back = Get(KeptCards[k], "back")

\* C19 as stated: for every text that parses, each of the three parsers
\* drops exactly the entries that lack a required field, keeps the others in
\* order, and returns null when none is left.
C19_DropsInvalidEntries ==
  (quizParsed.t = "payloads" /\ Parses)
    => BlocksFiltered /\ SlidesFiltered /\ CardsFiltered

\* C19, amended: the same, for parseInfographic and parseSlides on the
\* documents that have a truthy title; a document without one makes these
\* two return null whatever its entries are.  parseFlashcards needs no title.
C19_DropsInvalidEntriesOfTitled ==
  (quizParsed.t = "payloads" /\ Parses)
    => /\ CardsFiltered
       /\ IF Truthy(Get(quizRaw.json, "title"))
            THEN BlocksFiltered /\ SlidesFiltered
            ELSE quizParsed.infographic = JNull /\ quizParsed.slides = JNull

\* a titled deck of two slides: the one with a string bullet among its
\* bullets is kept with that bullet, the one with none is dropped
C19_Witness ==
  /\ quizParsed.t = "payloads" /\ Parses
  /\ Truthy(Get(quizRaw.json, "title"))
  /\ Len(EntriesOf("slides")) = 2
  /\ Len(KeptSlides) = 1
  /\ quizParsed.slides # JNull
  /\ quizParsed.slides.slides[1].bullets = <<JStr("e")>>

====
